---- MODULE Spec2Model ----
(***************************************************************************)
(* Damage-control PreToolUse hooks: the Bash hook                          *)
(* (plugins/typescript/hooks/bash-tool-damage-control.ts) and the Write    *)
(* hook (write-tool-damage-control.ts).                                    *)
(*                                                                         *)
(* Text is a sequence of one-character strings.  A regular expression is   *)
(* a tree of tuples interpreted by Ends, which computes what RegExp.test   *)
(* computes for the constructs the hooks use.  The platform is POSIX       *)
(* (path.sep = "/") and os.homedir() is Home.                              *)
(***************************************************************************)
EXTENDS Integers, Sequences, FiniteSets, TLC

\* ------------------------------------------------------------------------
\* Characters
\* ------------------------------------------------------------------------

LowerSeq == <<"a","b","c","d","e","f","g","h","i","j","k","l","m",
              "n","o","p","q","r","s","t","u","v","w","x","y","z">>

UpperSeq == <<"A","B","C","D","E","F","G","H","I","J","K","L","M",
              "N","O","P","Q","R","S","T","U","V","W","X","Y","Z">>

LowerChars == {LowerSeq[i] : i \in 1..26}

UpperChars == {UpperSeq[i] : i \in 1..26}

DigitChars == {"0","1","2","3","4","5","6","7","8","9"}

\* \s of an ECMAScript regular expression (the ASCII part)
SpaceChars == {" ", "\t", "\n", "\r"}

\* \w of an ECMAScript regular expression
WordChars == LowerChars \cup UpperChars \cup DigitChars \cup {"_"}

LowerMap == [c \in UpperChars |-> LowerSeq[CHOOSE i \in 1..26 : UpperSeq[i] = c]]

ToLower(c) == IF c \in UpperChars THEN LowerMap[c] ELSE c

LowerStr(s) == [i \in 1..Len(s) |-> ToLower(s[i])]

\* ------------------------------------------------------------------------
\* Strings
\* ------------------------------------------------------------------------

SetMin(S) == CHOOSE x \in S : \A y \in S : x <= y

SetMax(S) == CHOOSE x \in S : \A y \in S : y <= x

\* String.prototype.startsWith / endsWith / includes
StartsWith(s, p) == Len(p) <= Len(s) /\ SubSeq(s, 1, Len(p)) = p

EndsWith(s, p) == Len(p) <= Len(s) /\ SubSeq(s, Len(s) - Len(p) + 1, Len(s)) = p

\* the positions at which p occurs in s
OccursAt(s, p) == {i \in 1..(Len(s) - Len(p) + 1) : SubSeq(s, i, i + Len(p) - 1) = p}

Includes(s, p) == OccursAt(s, p) # {}

\* String.prototype.trim
Trim(s) ==
  LET keep == {i \in 1..Len(s) : s[i] \notin SpaceChars}
  IN  IF keep = {} THEN << >> ELSE SubSeq(s, SetMin(keep), SetMax(keep))

RECURSIVE SplitFrom(_, _)
\* the maximal runs of non-whitespace of s from position i on, in order
SplitFrom(s, i) ==
  LET starts == {j \in i..Len(s) : s[j] \notin SpaceChars}
  IN  IF starts = {} THEN << >>
      ELSE LET b == SetMin(starts)
               stops == {j \in b..Len(s) : s[j] \in SpaceChars}
               e == IF stops = {} THEN Len(s) + 1 ELSE SetMin(stops)
           IN  <<SubSeq(s, b, e - 1)>> \o SplitFrom(s, e)

\* command.split(/\s+/) of a trimmed, non-empty command
SplitWs(s) == SplitFrom(s, 1)

RECURSIVE JoinWith(_, _)
\* Array.prototype.join
JoinWith(parts, glue) ==
  IF parts = << >> THEN << >>
  ELSE IF Len(parts) = 1 THEN parts[1]
  ELSE parts[1] \o glue \o JoinWith(Tail(parts), glue)

\* ------------------------------------------------------------------------
\* Regular expressions
\* ------------------------------------------------------------------------
\* <<"lit", text>>                     the characters of text, in order
\* <<"cls", neg, sp, wd, chars>>       a character class: \s if sp, \w if wd,
\*                                     the characters chars; negated if neg
\* <<"cat", <<r1, ..., rn>> >>         r1 r2 ... rn
\* <<"alt", <<r1, ..., rn>> >>         r1 | r2 | ... | rn
\* <<"star", r>>  <<"plus", r>>        r*   r+
\* <<"wb">>                            \b
\* <<"nla", r>>                        (?!r)

Lit(text) == <<"lit", text>>

Cls(neg, sp, wd, chars) == <<"cls", neg, sp, wd, chars>>

Cat(rs) == <<"cat", rs>>

Alt(rs) == <<"alt", rs>>

Star(r) == <<"star", r>>

Plus(r) == <<"plus", r>>

WB == <<"wb">>

NegLook(r) == <<"nla", r>>

\* \s  \S  .  (the dot does not match a line terminator)
WS == Cls(FALSE, TRUE, FALSE, {})

NonWS == Cls(TRUE, TRUE, FALSE, {})

Dot == Cls(TRUE, FALSE, FALSE, {"\n", "\r"})

AnyOf(chars) == Cls(FALSE, FALSE, FALSE, chars)

NoneOf(chars) == Cls(TRUE, FALSE, FALSE, chars)

\* does character c belong to the class r; with the i flag both sides are
\* compared case-folded
ClsHas(r, c, ci) ==
  LET in == \/ (r[3] /\ c \in SpaceChars)
            \/ (r[4] /\ c \in WordChars)
            \/ (IF ci THEN ToLower(c) \in {ToLower(x) : x \in r[5]} ELSE c \in r[5])
  IN  in # r[2]

IsWordAt(s, i) == i >= 1 /\ i <= Len(s) /\ s[i] \in WordChars

LitAt(s, i, text, ci) ==
  /\ i + Len(text) - 1 <= Len(s)
  /\ \A k \in 1..Len(text) :
       IF ci THEN ToLower(s[i + k - 1]) = ToLower(text[k]) ELSE s[i + k - 1] = text[k]

RECURSIVE Ends(_, _, _, _)
\* The positions at which a match of r can end when it starts at one of the
\* positions I of s (a position is the index of the next character to read).
Ends(r, s, I, ci) ==
  IF I = {} THEN {}
  ELSE CASE r[1] = "lit" ->
              {i + Len(r[2]) : i \in {j \in I : LitAt(s, j, r[2], ci)}}
         [] r[1] = "cls" ->
              {i + 1 : i \in {j \in I : j <= Len(s) /\ ClsHas(r, s[j], ci)}}
         [] r[1] = "cat" ->
              IF r[2] = << >> THEN I
              ELSE Ends(Cat(Tail(r[2])), s, Ends(Head(r[2]), s, I, ci), ci)
         [] r[1] = "alt" ->
              IF r[2] = << >> THEN {}
              ELSE Ends(Head(r[2]), s, I, ci) \cup Ends(Alt(Tail(r[2])), s, I, ci)
         [] r[1] = "star" ->
              LET J == I \cup Ends(r[2], s, I, ci)
              IN  IF J = I THEN I ELSE Ends(r, s, J, ci)
         [] r[1] = "plus" ->
              Ends(Star(r[2]), s, Ends(r[2], s, I, ci), ci)
         [] r[1] = "wb" ->
              {i \in I : IsWordAt(s, i - 1) # IsWordAt(s, i)}
         [] r[1] = "nla" ->
              {i \in I : Ends(r[2], s, {i}, ci) = {}}

Positions(s) == 1..(Len(s) + 1)

\* RegExp.prototype.test of a regular expression without the g flag
Test(r, s, ci) == Ends(r, s, Positions(s), ci) # {}

\* the leftmost position at which a match of r starts (0 if there is none)
FirstStart(r, s, ci) ==
  LET starts == {i \in Positions(s) : Ends(r, s, {i}, ci) # {}}
  IN  IF starts = {} THEN 0 ELSE SetMin(starts)


\* ------------------------------------------------------------------------
\* Shell wrapper unwrapping
\* ------------------------------------------------------------------------

Quotes == {"\"", "'"}

LineEnds == {"\n", "\r"}

NoMatch == [found |-> FALSE, text |-> << >>]

Matched(t) == [found |-> TRUE, text |-> t]

\* \b<name>\s+-c\s+(["'])   the part of a wrapper pattern before group 2
WrapperHead(name) ==
  Cat(<<WB, Lit(name), Plus(WS), Lit(<<"-","c">>), Plus(WS), AnyOf(Quotes)>>)

\* (.+?)\1 read from position p, where s[p-1] is the quote of group 1: the
\* position of the nearest later quote of the same kind that leaves group 2
\* non-empty and on one line (0 if there is none)
CloseQuote(s, p) ==
  LET js == {j \in (p + 1)..Len(s) :
               /\ s[j] = s[p - 1]
               /\ \A k \in p..(j - 1) : s[k] \notin LineEnds}
  IN  IF js = {} THEN 0 ELSE SetMin(js)

\* command.match(/\b<name>\s+-c\s+(["'])(.+?)\1/): group 2 of the leftmost match
WrapperMatch(s, name) ==
  LET head == WrapperHead(name)
      ok(i) == \E p \in Ends(head, s, {i}, FALSE) : CloseQuote(s, p) # 0
      starts == {i \in 1..Len(s) : ok(i)}
  IN  IF starts = {} THEN NoMatch
      ELSE LET i == SetMin(starts)
               p == SetMax({q \in Ends(head, s, {i}, FALSE) : CloseQuote(s, q) # 0})
           IN  Matched(SubSeq(s, p, CloseQuote(s, p) - 1))

\* the first name of names, in order, whose wrapper pattern matches s
RECURSIVE FirstWrapper(_, _)
FirstWrapper(s, names) ==
  IF names = << >> THEN NoMatch
  ELSE LET m == WrapperMatch(s, Head(names))
       IN  IF m.found THEN m ELSE FirstWrapper(s, Tail(names))

shellWrappers == <<<<"b","a","s","h">> (* bash *), <<"s","h">>, <<"z","s","h">> (* zsh *), <<"k","s","h">> (* ksh *), <<"d","a","s","h">> (* dash *)>>

pythonWrappers == <<<<"p","y","t","h","o","n">> (* python *), <<"p","y","t","h","o","n","2">> (* python2 *), <<"p","y","t","h","o","n","3">> (* python3 *)>>

SubprocessCall ==
  Cat(<<Lit(<<"s","u","b","p","r","o","c","e","s","s",".">> (* subprocess. *)),
        Alt(<<Lit(<<"r","u","n">> (* run *)), Lit(<<"c","a","l","l">> (* call *)), Lit(<<"c","h","e","c","k","_","c","a","l","l">> (* check_call *)),
              Lit(<<"c","h","e","c","k","_","o","u","t","p","u","t">> (* check_output *)), Lit(<<"P","o","p","e","n">> (* Popen *))>>)>>)

\* <callee>\s*\(\s*["']([^"']+)["']\s*\): group 1 of the leftmost match
CallStringArg(code, callee) ==
  LET head == Cat(<<callee, Star(WS), Lit(<<"(">>), Star(WS), AnyOf(Quotes)>>)
      tail == Cat(<<Plus(NoneOf(Quotes)), AnyOf(Quotes), Star(WS), Lit(<<")">>)>>)
      i == FirstStart(Cat(<<head, tail>>), code, FALSE)
  IN  IF i = 0 THEN NoMatch
      ELSE LET p == SetMax({q \in Ends(head, code, {i}, FALSE) :
                              Ends(tail, code, {q}, FALSE) # {}})
               e == SetMin({j \in p..Len(code) : code[j] \in Quotes})
           IN  Matched(SubSeq(code, p, e - 1))

RECURSIVE QuotedParts(_, _)
\* listContents.match(/["']([^"']+)["']/g) with the quotes sliced off each part
QuotedParts(s, from) ==
  LET ok(i) == /\ s[i] \in Quotes
               /\ i + 1 <= Len(s) /\ s[i + 1] \notin Quotes
               /\ \E j \in (i + 2)..Len(s) : s[j] \in Quotes
      starts == {i \in from..Len(s) : ok(i)}
  IN  IF starts = {} THEN << >>
      ELSE LET i == SetMin(starts)
               e == SetMin({j \in (i + 2)..Len(s) : s[j] \in Quotes})
           IN  <<SubSeq(s, i + 1, e - 1)>> \o QuotedParts(s, e + 1)

\* subprocess.<fn>\s*\(\s*\[([^\]]+)\]: the string literals of the list,
\* joined with spaces
CallListArg(code) ==
  LET head == Cat(<<SubprocessCall, Star(WS), Lit(<<"(">>), Star(WS), Lit(<<"[">>)>>)
      tail == Cat(<<Plus(NoneOf({"]"})), Lit(<<"]">>)>>)
      i == FirstStart(Cat(<<head, tail>>), code, FALSE)
  IN  IF i = 0 THEN NoMatch
      ELSE LET p == SetMax({q \in Ends(head, code, {i}, FALSE) :
                              Ends(tail, code, {q}, FALSE) # {}})
               e == SetMin({j \in p..Len(code) : code[j] = "]"})
               parts == QuotedParts(SubSeq(code, p, e - 1), 1)
           IN  IF parts = << >> THEN NoMatch ELSE Matched(JoinWith(parts, <<" ">>))

extractSystemCall(pythonCode) ==
  IF pythonCode = << >> THEN NoMatch
  ELSE LET a == CallStringArg(pythonCode, Lit(<<"o","s",".","s","y","s","t","e","m">> (* os.system *)))
           b == CallStringArg(pythonCode, SubprocessCall)
       IN  IF a.found THEN a ELSE IF b.found THEN b ELSE CallListArg(pythonCode)

\* \benv\s+(?:[A-Z_][A-Z0-9_]*=[^\s]+\s+)*   the part before group 1
EnvHead ==
  Cat(<<WB, Lit(<<"e","n","v">> (* env *)), Plus(WS),
        Star(Cat(<<AnyOf(UpperChars \cup {"_"}),
                   Star(AnyOf(UpperChars \cup DigitChars \cup {"_"})),
                   Lit(<<"=">>), Plus(NonWS), Plus(WS)>>))>>)

\* command.match(/\benv\s+(?:[A-Z_][A-Z0-9_]*=[^\s]+\s+)*(.+)/): group 1 of the
\* leftmost match.  The quantifiers are greedy, so the head takes the longest
\* run of assignments and group 1 the rest of the line.
EnvMatch(s) ==
  LET ok(p) == p <= Len(s) /\ s[p] \notin LineEnds
      starts == {i \in 1..Len(s) : \E p \in Ends(EnvHead, s, {i}, FALSE) : ok(p)}
  IN  IF starts = {} THEN NoMatch
      ELSE LET i == SetMin(starts)
               p == SetMax({q \in Ends(EnvHead, s, {i}, FALSE) : ok(q)})
               stops == {j \in p..Len(s) : s[j] \in LineEnds}
               e == IF stops = {} THEN Len(s) + 1 ELSE SetMin(stops)
           IN  Matched(SubSeq(s, p, e - 1))

MaxUnwrapDepth == 5

RECURSIVE unwrapCommand(_, _)
\* [cmd, was] is the pair [string, boolean] the function returns
unwrapCommand(command, depth) ==
  IF depth >= MaxUnwrapDepth THEN [cmd |-> command, was |-> depth > 0]
  ELSE IF Trim(command) = << >> THEN [cmd |-> command, was |-> FALSE]
  ELSE LET c == Trim(command)
           sh == FirstWrapper(c, shellWrappers)
           py == FirstWrapper(c, pythonWrappers)
           env == EnvMatch(c)
       IN  IF sh.found THEN unwrapCommand(sh.text, depth + 1)
           ELSE IF py.found
             THEN LET extracted == extractSystemCall(py.text)
                  IN  IF extracted.found
                        THEN unwrapCommand(extracted.text, depth + 1)
                        ELSE unwrapCommand(py.text, depth + 1)
           ELSE IF env.found THEN unwrapCommand(env.text, depth + 1)
           ELSE [cmd |-> c, was |-> depth > 0]

\* ------------------------------------------------------------------------
\* Git semantic analysis
\* ------------------------------------------------------------------------

SeqHas(args, a) == \E i \in 1..Len(args) : args[i] = a

\* Array.prototype.indexOf, 1-based (0 if absent)
IndexOf(args, a) ==
  IF SeqHas(args, a) THEN SetMin({i \in 1..Len(args) : args[i] = a}) ELSE 0

\* arg.startsWith("-") && !arg.startsWith("--") && arg.length > 1 &&
\* arg.slice(1).includes(ch)
ShortFlagHas(arg, ch) ==
  /\ StartsWith(arg, <<"-">>)
  /\ ~StartsWith(arg, <<"-", "-">>)
  /\ Len(arg) > 1
  /\ \E i \in 2..Len(arg) : arg[i] = ch

AnyShortFlagHas(args, ch) == \E i \in 1..Len(args) : ShortFlagHas(args[i], ch)

Safe == [dangerous |-> FALSE, reason |-> ""]

Dangerous(why) == [dangerous |-> TRUE, reason |-> why]

\* variants that differ from the code in one decision each
gitCheckout_ForceFirst(args) ==
  IF SeqHas(args, <<"-","-","f","o","r","c","e">> (* --force *)) \/ SeqHas(args, <<"-","f">>)
    THEN Dangerous("git checkout --force discards uncommitted changes")
  ELSE IF SeqHas(args, <<"-","b">>) \/ SeqHas(args, <<"-","-","b","r","a","n","c","h">> (* --branch *)) THEN Safe
  ELSE IF SeqHas(args, <<"-","-">>) /\ IndexOf(args, <<"-","-">>) < Len(args)
    THEN Dangerous("git checkout with -- discards uncommitted changes")
  ELSE IF AnyShortFlagHas(args, "f")
    THEN Dangerous("git checkout -f discards uncommitted changes")
  ELSE Safe

gitPush_ExactLease(args) ==
  IF SeqHas(args, <<"-","-","f","o","r","c","e","-","w","i","t","h","-","l","e","a","s","e">> (* --force-with-lease *)) THEN Safe
  ELSE IF SeqHas(args, <<"-","-","f","o","r","c","e">> (* --force *))
    THEN Dangerous("git push --force can overwrite remote history without safety checks")
  ELSE IF SeqHas(args, <<"-","f">>) \/ AnyShortFlagHas(args, "f")
    THEN Dangerous("git push -f can overwrite remote history without safety checks")
  ELSE Safe

gitReset_HardFirst(args) ==
  IF SeqHas(args, <<"-","-","h","a","r","d">> (* --hard *))
    THEN Dangerous("git reset --hard permanently discards uncommitted changes")
  ELSE Safe

gitClean_OnlyForce(args) ==
  IF SeqHas(args, <<"-","f">>) \/ AnyShortFlagHas(args, "f")
    THEN Dangerous("git clean removes untracked files permanently")
  ELSE Safe

gitCheckout(args) ==
  IF SeqHas(args, <<"-","b">>) \/ SeqHas(args, <<"-","-","b","r","a","n","c","h">> (* --branch *)) THEN Safe
  ELSE IF SeqHas(args, <<"-","-">>) /\ IndexOf(args, <<"-","-">>) < Len(args)
    THEN Dangerous("git checkout with -- discards uncommitted changes")
  ELSE IF SeqHas(args, <<"-","-","f","o","r","c","e">> (* --force *)) \/ SeqHas(args, <<"-","f">>)
    THEN Dangerous("git checkout --force discards uncommitted changes")
  ELSE IF AnyShortFlagHas(args, "f")
    THEN Dangerous("git checkout -f discards uncommitted changes")
  ELSE Safe

gitPush(args) ==
  IF Includes(JoinWith(args, <<" ">>), <<"-","-","f","o","r","c","e","-","w","i","t","h","-","l","e","a","s","e">> (* --force-with-lease *)) THEN Safe
  ELSE IF SeqHas(args, <<"-","-","f","o","r","c","e">> (* --force *))
    THEN Dangerous("git push --force can overwrite remote history without safety checks")
  ELSE IF SeqHas(args, <<"-","f">>) \/ AnyShortFlagHas(args, "f")
    THEN Dangerous("git push -f can overwrite remote history without safety checks")
  ELSE Safe

gitReset(args) ==
  IF SeqHas(args, <<"-","-","s","o","f","t">> (* --soft *)) \/ SeqHas(args, <<"-","-","m","i","x","e","d">> (* --mixed *)) THEN Safe
  ELSE IF SeqHas(args, <<"-","-","h","a","r","d">> (* --hard *))
    THEN Dangerous("git reset --hard permanently discards uncommitted changes")
  ELSE Safe

gitClean(args) ==
  IF \/ SeqHas(args, <<"-","f">>) \/ SeqHas(args, <<"-","d">>)
     \/ AnyShortFlagHas(args, "f") \/ AnyShortFlagHas(args, "d")
    THEN Dangerous("git clean removes untracked files permanently")
  ELSE Safe

\* a variant that treats every other subcommand as clean
analyzeGitCommand_OtherAsClean(command) ==
  LET c == Trim(command)
      parts == SplitWs(c)
      subcommand == parts[2]
      args == SubSeq(parts, 3, Len(parts))
  IN  IF c = << >> THEN Safe
      ELSE IF ~StartsWith(c, <<"g","i","t"," ">> (* git  *)) THEN Safe
      ELSE IF Len(parts) < 2 THEN Safe
      ELSE IF subcommand = <<"c","h","e","c","k","o","u","t">> (* checkout *) THEN gitCheckout(args)
      ELSE IF subcommand = <<"p","u","s","h">> (* push *) THEN gitPush(args)
      ELSE IF subcommand = <<"r","e","s","e","t">> (* reset *) THEN gitReset(args)
      ELSE gitClean(args)

analyzeGitCommand(command) ==
  LET c == Trim(command)
      parts == SplitWs(c)
      subcommand == parts[2]
      args == SubSeq(parts, 3, Len(parts))
  IN  IF c = << >> THEN Safe
      ELSE IF ~StartsWith(c, <<"g","i","t"," ">> (* git  *)) THEN Safe
      ELSE IF Len(parts) < 2 THEN Safe
      ELSE IF subcommand = <<"c","h","e","c","k","o","u","t">> (* checkout *) THEN gitCheckout(args)
      ELSE IF subcommand = <<"p","u","s","h">> (* push *) THEN gitPush(args)
      ELSE IF subcommand = <<"r","e","s","e","t">> (* reset *) THEN gitReset(args)
      ELSE IF subcommand = <<"c","l","e","a","n">> (* clean *) THEN gitClean(args)
      ELSE Safe

\* ------------------------------------------------------------------------
\* Configuration
\* ------------------------------------------------------------------------
\* A configured expression is [kind, re]: kind "valid" with the regular
\* expression re that new RegExp builds from it, kind "invalid" when
\* new RegExp throws on it, kind "empty" for the empty string.

Expr(r) == [kind |-> "valid", re |-> r]

InvalidExpr == [kind |-> "invalid", re |-> Lit(<< >>)]

EmptyExpr == [kind |-> "empty", re |-> Lit(<< >>)]

\* os.homedir()
Home == <<"/","r","o","o","t">> (* /root *)

\* path.replace(/^~/, homedir())
ExpandHome(path) ==
  IF Len(path) >= 1 /\ path[1] = "~" THEN Home \o Tail(path) ELSE path

isGlobPattern(pattern) ==
  \E i \in 1..Len(pattern) : pattern[i] \in {"*", "?", "["}

\* [^\s/]
NonWsSlash == Cls(TRUE, TRUE, FALSE, {"/"})

\* the regular expression whose source globToRegex returns: * and ? become
\* [^\s/]* and [^\s/], every other character stands for itself
globToRegex(globPattern) ==
  Cat([i \in 1..Len(globPattern) |->
        IF globPattern[i] = "*" THEN Star(NonWsSlash)
        ELSE IF globPattern[i] = "?" THEN NonWsSlash
        ELSE Lit(<<globPattern[i]>>)])

\* the regular expression whose source escapeRegex returns
escapeRegex(str) == Lit(str)

RECURSIVE WarningsFrom(_, _)
\* the warnings compileRegexPatterns prints, one per pattern from position i
\* on whose expression new RegExp rejects, with the index idx = i - 1
WarningsFrom(patterns, i) ==
  IF i > Len(patterns) THEN << >>
  ELSE (IF patterns[i].pattern.kind = "invalid"
          THEN <<<<"Warning: Invalid regex pattern at index", i - 1>>>> ELSE << >>)
         \o WarningsFrom(patterns, i + 1)

\* a variant that gives up at the first expression that does not compile
compileRegexPatterns_Aborts(patterns) ==
  IF \E i \in 1..Len(patterns) : patterns[i].pattern.kind = "invalid" THEN << >>
  ELSE SelectSeq(patterns, LAMBDA item : item.pattern.kind = "valid")

\* the compiled patterns: those whose expression is non-empty and compiles,
\* in configured order
compileRegexPatterns(patterns) ==
  SelectSeq(patterns, LAMBDA item : item.pattern.kind = "valid")

PathObject(path) ==
  IF isGlobPattern(path)
    THEN [original |-> path, isGlob |-> TRUE, globRegex |-> globToRegex(path),
          expanded |-> << >>, escapedExpanded |-> Lit(<< >>),
          escapedOriginal |-> Lit(<< >>)]
    ELSE [original |-> path, isGlob |-> FALSE, globRegex |-> Lit(<< >>),
          expanded |-> ExpandHome(path),
          escapedExpanded |-> escapeRegex(ExpandHome(path)),
          escapedOriginal |-> escapeRegex(path)]

\* one PathObject per non-empty configured path, in configured order
preprocessPathList(paths) ==
  LET kept == SelectSeq(paths, LAMBDA p : p # << >>)
  IN  [i \in 1..Len(kept) |-> PathObject(kept[i])]

compileConfig(config) ==
  [bashToolPatterns |-> config.bashToolPatterns,
   zeroAccessPaths |-> config.zeroAccessPaths,
   readOnlyPaths |-> config.readOnlyPaths,
   noDeletePaths |-> config.noDeletePaths,
   contexts |-> config.contexts,
   bashToolPatterns_compiled |-> compileRegexPatterns(config.bashToolPatterns),
   zeroAccessPaths_compiled |-> preprocessPathList(config.zeroAccessPaths),
   readOnlyPaths_compiled |-> preprocessPathList(config.readOnlyPaths),
   noDeletePaths_compiled |-> preprocessPathList(config.noDeletePaths)]

\* ------------------------------------------------------------------------
\* Context detection
\* ------------------------------------------------------------------------
\* config.contexts always has both fields here; a context that the
\* configuration does not declare is one that is not enabled.

NoContext == "none"

ContextOff ==
  [enabled |-> FALSE, file_extensions |-> << >>, command_patterns |-> << >>,
   relaxed_checks |-> {}]

NoContexts == [documentation |-> ContextOff, commit_message |-> ContextOff]

detectContext(toolName, toolInput, config) ==
  LET docCtx == config.contexts.documentation
      commitCtx == config.contexts.commit_message
      isDoc == /\ toolName \in {"Edit", "Write"}
               /\ docCtx.enabled
               /\ \E i \in 1..Len(docCtx.file_extensions) :
                    EndsWith(toolInput.file_path, docCtx.file_extensions[i])
      isCommit == /\ toolName = "Bash"
                  /\ commitCtx.enabled
                  /\ \E i \in 1..Len(commitCtx.command_patterns) :
                       /\ commitCtx.command_patterns[i].kind # "invalid"
                       /\ Test(commitCtx.command_patterns[i].re, toolInput.command, TRUE)
  IN  IF isDoc THEN "documentation"
      ELSE IF isCommit THEN "commit_message"
      ELSE NoContext

\* new Set(contextConfig?.relaxed_checks || [])
\* a variant that relaxes nothing
RelaxedChecks_None(config, context) == {}

RelaxedChecks(config, context) ==
  IF context = "documentation" THEN config.contexts.documentation.relaxed_checks
  ELSE IF context = "commit_message" THEN config.contexts.commit_message.relaxed_checks
  ELSE {}

\* ------------------------------------------------------------------------
\* Operation patterns
\* ------------------------------------------------------------------------
\* Each template ends in {path}; it is kept as the regular expression of the
\* text before {path} and its operation name.

DotStar == Star(Dot)

CmdThen(name, rest) == Cat(<<WB, Lit(name), Plus(WS)>> \o rest)

WRITE_PATTERNS ==
  << <<Cat(<<Lit(<<">">>), Star(WS)>>), "write">>,
     <<CmdThen(<<"t","e","e">> (* tee *), <<NegLook(Cat(<<DotStar, Lit(<<"-","a">>)>>)), DotStar>>), "write">> >>

APPEND_PATTERNS ==
  << <<Cat(<<Lit(<<">",">">>), Star(WS)>>), "append">>,
     <<CmdThen(<<"t","e","e">> (* tee *), <<Lit(<<"-","a">>), Plus(WS), DotStar>>), "append">>,
     <<CmdThen(<<"t","e","e">> (* tee *), <<DotStar, Lit(<<"-","a">>), DotStar>>), "append">> >>

EDIT_PATTERNS ==
  << <<CmdThen(<<"s","e","d">> (* sed *), <<Lit(<<"-","i">>), DotStar>>), "edit">>,
     <<CmdThen(<<"p","e","r","l">> (* perl *), <<Lit(<<"-">>), Star(NonWS), Lit(<<"i">>), DotStar>>), "edit">>,
     <<CmdThen(<<"a","w","k">> (* awk *), <<Lit(<<"-","i">>), Plus(WS), Lit(<<"i","n","p","l","a","c","e">> (* inplace *)), DotStar>>), "edit">> >>

MOVE_COPY_PATTERNS ==
  << <<CmdThen(<<"m","v">>, <<DotStar, Plus(WS)>>), "move">>,
     <<CmdThen(<<"c","p">>, <<DotStar, Plus(WS)>>), "copy">> >>

DELETE_PATTERNS ==
  << <<CmdThen(<<"r","m">>, <<DotStar>>), "delete">>,
     <<CmdThen(<<"u","n","l","i","n","k">> (* unlink *), <<DotStar>>), "delete">>,
     <<CmdThen(<<"r","m","d","i","r">> (* rmdir *), <<DotStar>>), "delete">>,
     <<CmdThen(<<"s","h","r","e","d">> (* shred *), <<DotStar>>), "delete">> >>

PERMISSION_PATTERNS ==
  << <<CmdThen(<<"c","h","m","o","d">> (* chmod *), <<DotStar>>), "chmod">>,
     <<CmdThen(<<"c","h","o","w","n">> (* chown *), <<DotStar>>), "chown">>,
     <<CmdThen(<<"c","h","g","r","p">> (* chgrp *), <<DotStar>>), "chgrp">> >>

TRUNCATE_PATTERNS ==
  << <<CmdThen(<<"t","r","u","n","c","a","t","e">> (* truncate *), <<DotStar>>), "truncate">>,
     <<Cat(<<Lit(<<":">>), Star(WS), Lit(<<">">>), Star(WS)>>), "truncate">> >>

\* a variant without the delete templates
READ_ONLY_BLOCKED_NoDelete ==
  WRITE_PATTERNS \o APPEND_PATTERNS \o EDIT_PATTERNS \o MOVE_COPY_PATTERNS
    \o PERMISSION_PATTERNS \o TRUNCATE_PATTERNS

READ_ONLY_BLOCKED ==
  WRITE_PATTERNS \o APPEND_PATTERNS \o EDIT_PATTERNS \o MOVE_COPY_PATTERNS
    \o DELETE_PATTERNS \o PERMISSION_PATTERNS \o TRUNCATE_PATTERNS

NO_DELETE_BLOCKED == DELETE_PATTERNS

\* ------------------------------------------------------------------------
\* Path checking
\* ------------------------------------------------------------------------

Reason(prefix, text, pathType, path) ==
  [prefix |-> prefix, text |-> text, pathType |-> pathType, path |-> path]

NoReason == Reason("", "", "", << >>)

\* does the template built on pathObj match the command
TemplateHits(command, pathObj, template) ==
  IF pathObj.isGlob
    THEN Test(Cat(<<template[1], pathObj.globRegex>>), command, TRUE)
    ELSE \/ Test(Cat(<<template[1], pathObj.escapedExpanded>>), command, FALSE)
         \/ Test(Cat(<<template[1], pathObj.escapedOriginal>>), command, FALSE)

checkPathPatterns(command, pathObj, patterns, pathType) ==
  LET hits == {k \in 1..Len(patterns) : TemplateHits(command, pathObj, patterns[k])}
  IN  IF hits = {} THEN [blocked |-> FALSE, reason |-> NoReason]
      ELSE [blocked |-> TRUE,
            reason |-> Reason("Blocked: ", patterns[SetMin(hits)][2], pathType,
                              pathObj.original)]

\* a variant of the suffix that looks at nothing
FileSuffix_Off == Lit(<< >>)

\* (?![a-zA-Z0-9_.-])
FileSuffix == NegLook(AnyOf(WordChars \cup {".", "-"}))

\* does the zero-access rule pathObj match the command
ZeroAccessHits(command, pathObj) ==
  IF pathObj.isGlob THEN Test(pathObj.globRegex, command, TRUE)
  ELSE IF EndsWith(pathObj.original, <<"/">>)
    THEN \/ Test(pathObj.escapedExpanded, command, FALSE)
         \/ Test(pathObj.escapedOriginal, command, FALSE)
    ELSE \/ Test(Cat(<<pathObj.escapedExpanded, FileSuffix>>), command, FALSE)
         \/ Test(Cat(<<pathObj.escapedOriginal, FileSuffix>>), command, FALSE)

CheckResult(blocked, ask, reason, patternMatched, wasUnwrapped, semanticMatch) ==
  [blocked |-> blocked, ask |-> ask, reason |-> reason,
   patternMatched |-> patternMatched, wasUnwrapped |-> wasUnwrapped,
   semanticMatch |-> semanticMatch]

\* patternMatched is <<name, index>>; only yaml_pattern_<idx> carries an index
PatternId(name, idx) == <<name, idx>>

\* the first of the indices hs at which a loop found a match, 0 if there is none
FirstIndex(hs) == IF hs = {} THEN 0 ELSE SetMin(hs)

\* the steps of checkCommand, each the result it returns or Pass
Pass == [hit |-> FALSE]

Return(r) == [hit |-> TRUE, result |-> r]

\* a variant of the git step that blocks instead of asking
SemanticGitStep_Blocks(cmd, was) ==
  LET git == analyzeGitCommand(cmd)
  IN  IF git.dangerous
        THEN Return(CheckResult(TRUE, FALSE, Reason("Blocked: ", git.reason, "", << >>),
                                PatternId("semantic_git", 0), was, TRUE))
        ELSE Pass

SemanticGitStep(cmd, was) ==
  LET git == analyzeGitCommand(cmd)
  IN  IF git.dangerous
        THEN Return(CheckResult(FALSE, TRUE, Reason("", git.reason, "", << >>),
                                PatternId("semantic_git", 0), was, TRUE))
        ELSE Pass

\* a variant of the pattern step in which the last matching pattern decides
PatternStep_LastWins(cmd, was, config) ==
  LET ps == config.bashToolPatterns_compiled
      hs == {i \in 1..Len(ps) : Test(ps[i].pattern.re, cmd, TRUE)}
      idx == IF hs = {} THEN 0 ELSE SetMax(hs)
  IN  IF idx = 0 THEN Pass
      ELSE IF ps[idx].ask
        THEN Return(CheckResult(FALSE, TRUE, Reason("", ps[idx].reason, "", << >>),
                                PatternId("yaml_pattern", idx - 1), was, FALSE))
        ELSE Return(CheckResult(TRUE, FALSE, Reason("Blocked: ", ps[idx].reason, "", << >>),
                                PatternId("yaml_pattern", idx - 1), was, FALSE))

PatternStep(cmd, was, config) ==
  LET ps == config.bashToolPatterns_compiled
      idx == FirstIndex({i \in 1..Len(ps) : Test(ps[i].pattern.re, cmd, TRUE)})
  IN  IF idx = 0 THEN Pass
      ELSE IF ps[idx].ask
        THEN Return(CheckResult(FALSE, TRUE, Reason("", ps[idx].reason, "", << >>),
                                PatternId("yaml_pattern", idx - 1), was, FALSE))
        ELSE Return(CheckResult(TRUE, FALSE, Reason("Blocked: ", ps[idx].reason, "", << >>),
                                PatternId("yaml_pattern", idx - 1), was, FALSE))

ZeroAccessStep(cmd, was, config) ==
  LET objs == config.zeroAccessPaths_compiled
      idx == FirstIndex({i \in 1..Len(objs) : ZeroAccessHits(cmd, objs[i])})
  IN  IF idx = 0 THEN Pass
      ELSE IF objs[idx].isGlob
        THEN Return(CheckResult(TRUE, FALSE,
                      Reason("Blocked: zero-access pattern ", " (no operations allowed)",
                             "", objs[idx].original),
                      PatternId("zero_access_glob", 0), was, FALSE))
        ELSE Return(CheckResult(TRUE, FALSE,
                      Reason("Blocked: zero-access path ", " (no operations allowed)",
                             "", objs[idx].original),
                      PatternId("zero_access_literal", 0), was, FALSE))

ReadOnlyStep(cmd, was, config) ==
  LET objs == config.readOnlyPaths_compiled
      chk(i) == checkPathPatterns(cmd, objs[i], READ_ONLY_BLOCKED, "read-only path")
      idx == FirstIndex({i \in 1..Len(objs) : chk(i).blocked})
  IN  IF idx = 0 THEN Pass
      ELSE Return(CheckResult(TRUE, FALSE, chk(idx).reason,
                              PatternId("readonly_path", 0), was, FALSE))

NoDeleteStep(cmd, was, config) ==
  LET objs == config.noDeletePaths_compiled
      chk(i) == checkPathPatterns(cmd, objs[i], NO_DELETE_BLOCKED, "no-delete path")
      idx == FirstIndex({i \in 1..Len(objs) : chk(i).blocked})
  IN  IF idx = 0 THEN Pass
      ELSE Return(CheckResult(TRUE, FALSE, chk(idx).reason,
                              PatternId("nodelete_path", 0), was, FALSE))

\* a variant of checkUnwrapped that looks at the path tiers before the git
\* analysis and the patterns
checkUnwrapped_PathsFirst(u, config, relaxedChecks) ==
  LET git == IF "semantic_git" \in relaxedChecks THEN Pass
             ELSE SemanticGitStep(u.cmd, u.was)
      pat == IF "bashToolPatterns" \in relaxedChecks THEN Pass
             ELSE PatternStep(u.cmd, u.was, config)
      zero == IF "zeroAccessPaths" \in relaxedChecks THEN Pass
              ELSE ZeroAccessStep(u.cmd, u.was, config)
      ro == IF "readOnlyPaths" \in relaxedChecks THEN Pass
            ELSE ReadOnlyStep(u.cmd, u.was, config)
      nd == IF "noDeletePaths" \in relaxedChecks THEN Pass
            ELSE NoDeleteStep(u.cmd, u.was, config)
  IN  IF zero.hit THEN zero.result
      ELSE IF ro.hit THEN ro.result
      ELSE IF nd.hit THEN nd.result
      ELSE IF git.hit THEN git.result
      ELSE IF pat.hit THEN pat.result
      ELSE CheckResult(FALSE, FALSE, NoReason, PatternId("", 0), u.was, FALSE)

\* the steps of checkCommand on the unwrapped command u, in the order of
\* the code; the first step that returns decides
checkUnwrapped(u, config, relaxedChecks) ==
  LET git == IF "semantic_git" \in relaxedChecks THEN Pass
             ELSE SemanticGitStep(u.cmd, u.was)
      pat == IF "bashToolPatterns" \in relaxedChecks THEN Pass
             ELSE PatternStep(u.cmd, u.was, config)
      zero == IF "zeroAccessPaths" \in relaxedChecks THEN Pass
              ELSE ZeroAccessStep(u.cmd, u.was, config)
      ro == IF "readOnlyPaths" \in relaxedChecks THEN Pass
            ELSE ReadOnlyStep(u.cmd, u.was, config)
      nd == IF "noDeletePaths" \in relaxedChecks THEN Pass
            ELSE NoDeleteStep(u.cmd, u.was, config)
  IN  IF git.hit THEN git.result
      ELSE IF pat.hit THEN pat.result
      ELSE IF zero.hit THEN zero.result
      ELSE IF ro.hit THEN ro.result
      ELSE IF nd.hit THEN nd.result
      ELSE CheckResult(FALSE, FALSE, NoReason, PatternId("", 0), u.was, FALSE)

checkCommand(command, config, context) ==
  checkUnwrapped(unwrapCommand(command, 0), config, RelaxedChecks(config, context))

\* ------------------------------------------------------------------------
\* Write hook: path matching
\* ------------------------------------------------------------------------

RECURSIVE SegmentsFrom(_, _)
\* the non-empty pieces of path between separators, from position i on
SegmentsFrom(path, i) ==
  LET starts == {j \in i..Len(path) : path[j] # "/"}
  IN  IF starts = {} THEN << >>
      ELSE LET b == SetMin(starts)
               stops == {j \in b..Len(path) : path[j] = "/"}
               e == IF stops = {} THEN Len(path) + 1 ELSE SetMin(stops)
           IN  <<SubSeq(path, b, e - 1)>> \o SegmentsFrom(path, e)

RECURSIVE Resolve(_, _, _)
\* normalizeString of path.posix: "." is dropped, ".." removes the segment
\* before it, or is kept when there is none and the path is relative
Resolve(segs, out, allowAboveRoot) ==
  IF segs = << >> THEN out
  ELSE LET g == Head(segs)
           dots == <<".", ".">>
       IN  IF g = <<".">> THEN Resolve(Tail(segs), out, allowAboveRoot)
           ELSE IF g = dots
             THEN IF out # << >> /\ out[Len(out)] # dots
                    THEN Resolve(Tail(segs), SubSeq(out, 1, Len(out) - 1), allowAboveRoot)
                  ELSE IF allowAboveRoot
                    THEN Resolve(Tail(segs), Append(out, dots), allowAboveRoot)
                  ELSE Resolve(Tail(segs), out, allowAboveRoot)
           ELSE Resolve(Tail(segs), Append(out, g), allowAboveRoot)

\* path.normalize (POSIX)
normalize(path) ==
  IF path = << >> THEN <<".">>
  ELSE LET isAbsolute == path[1] = "/"
           trailingSeparator == path[Len(path)] = "/"
           body == JoinWith(Resolve(SegmentsFrom(path, 1), << >>, ~isAbsolute), <<"/">>)
       IN  IF body = << >>
             THEN IF isAbsolute THEN <<"/">>
                  ELSE IF trailingSeparator THEN <<".", "/">> ELSE <<".">>
             ELSE (IF isAbsolute THEN <<"/">> ELSE << >>) \o body
                    \o (IF trailingSeparator THEN <<"/">> ELSE << >>)

\* path.basename (POSIX)
basename(path) ==
  LET segs == SegmentsFrom(path, 1)
  IN  IF segs = << >> THEN << >> ELSE segs[Len(segs)]

\* the regular expression matchGlob builds between ^ and $: * and ? become
\* .* and ., every other character stands for itself
GlobBody(pattern) ==
  Cat([i \in 1..Len(pattern) |->
        IF pattern[i] = "*" THEN Star(Dot)
        ELSE IF pattern[i] = "?" THEN Dot
        ELSE Lit(<<ToLower(pattern[i])>>)])

\* new RegExp(`^${regexPattern}$`, "i").test(str.toLowerCase())
matchGlob(str, pattern) ==
  (Len(str) + 1) \in Ends(GlobBody(pattern), LowerStr(str), {1}, TRUE)

\* pattern.replace(/\/$/, "")
StripSlash(p) ==
  IF p # << >> /\ p[Len(p)] = "/" THEN SubSeq(p, 1, Len(p) - 1) ELSE p

\* a variant of matchPath whose literal rules match every path they begin
matchPath_Prefix(filePath, pattern) ==
  LET expandedPattern == ExpandHome(pattern)
      normalized == ExpandHome(normalize(filePath))
      patternNoSlash == StripSlash(expandedPattern)
  IN  IF isGlobPattern(pattern)
        THEN \/ matchGlob(basename(normalized), expandedPattern)
             \/ matchGlob(basename(normalized), pattern)
             \/ matchGlob(normalized, expandedPattern)
        ELSE StartsWith(normalized, patternNoSlash)

matchPath(filePath, pattern) ==
  LET expandedPattern == ExpandHome(pattern)
      normalized == ExpandHome(normalize(filePath))
      patternNoSlash == StripSlash(expandedPattern)
  IN  IF isGlobPattern(pattern)
        THEN \/ matchGlob(basename(normalized), expandedPattern)
             \/ matchGlob(basename(normalized), pattern)
             \/ matchGlob(normalized, expandedPattern)
        ELSE \/ normalized = expandedPattern
             \/ normalized = patternNoSlash
             \/ (EndsWith(expandedPattern, <<"/">>) /\ StartsWith(normalized, expandedPattern))
             \/ StartsWith(normalized, patternNoSlash \o <<"/">>)

\* the Write hook's reason names the tier and the rule
checkPath(filePath, config, context) ==
  LET relaxedChecks == RelaxedChecks(config, context)
      zs == config.zeroAccessPaths
      rs == config.readOnlyPaths
      z == IF "zeroAccessPaths" \in relaxedChecks THEN 0
           ELSE FirstIndex({i \in 1..Len(zs) : matchPath(filePath, zs[i])})
      r == IF "readOnlyPaths" \in relaxedChecks THEN 0
           ELSE FirstIndex({i \in 1..Len(rs) : matchPath(filePath, rs[i])})
  IN  IF z # 0
        THEN [blocked |-> TRUE,
              reason |-> Reason("zero-access path ", " (no operations allowed)", "", zs[z])]
      ELSE IF r # 0
        THEN [blocked |-> TRUE, reason |-> Reason("read-only path ", "", "", rs[r])]
      ELSE [blocked |-> FALSE, reason |-> NoReason]

\* ------------------------------------------------------------------------
\* Inputs: configurations
\* ------------------------------------------------------------------------

\* path rules of the documented configuration, and three more: a glob, a
\* relative file and a file whose name contains "-a"
SshDir == <<"~","/",".","s","s","h","/">> (* ~/.ssh/ *)

Bashrc == <<"~","/",".","b","a","s","h","r","c">> (* ~/.bashrc *)

HooksDir == <<".","c","l","a","u","d","e","/","h","o","o","k","s","/">> (* .claude/hooks/ *)

EnvFile == <<".","e","n","v">> (* .env *)

PemGlob == <<"*",".","p","e","m">> (* *.pem *)

AppConf == <<"/","e","t","c","/","m","y","-","a","p","p",".","c","o","n","f">> (* /etc/my-app.conf *)

\* \brm\s+-[rRf]
PRm ==
  [pattern |-> Expr(Cat(<<WB, Lit(<<"r","m">>), Plus(WS), Lit(<<"-">>), AnyOf({"r", "R", "f"})>>)),
   reason |-> "rm with recursive or force flags", ask |-> FALSE]

\* \brm\b
PRmAsk ==
  [pattern |-> Expr(Cat(<<WB, Lit(<<"r","m">>), WB>>)),
   reason |-> "rm needs confirmation", ask |-> TRUE]

\* \bgit\s+push\s+.*--force
PForce ==
  [pattern |-> Expr(Cat(<<WB, Lit(<<"g","i","t">> (* git *)), Plus(WS), Lit(<<"p","u","s","h">> (* push *)), Plus(WS),
                          DotStar, Lit(<<"-","-","f","o","r","c","e">> (* --force *))>>)),
   reason |-> "force push", ask |-> FALSE]

\* \bDELETE\s+FROM\b
PDeleteAsk ==
  [pattern |-> Expr(Cat(<<WB, Lit(<<"D","E","L","E","T","E">> (* DELETE *)), Plus(WS), Lit(<<"F","R","O","M">> (* FROM *)), WB>>)),
   reason |-> "SQL DELETE", ask |-> TRUE]

\* an expression new RegExp rejects, and the empty expression
PInvalid == [pattern |-> InvalidExpr, reason |-> "unbalanced", ask |-> FALSE]

PEmpty == [pattern |-> EmptyExpr, reason |-> "empty", ask |-> FALSE]

Config(patterns, zero, ro, nd, contexts) ==
  [bashToolPatterns |-> patterns, zeroAccessPaths |-> zero, readOnlyPaths |-> ro,
   noDeletePaths |-> nd, contexts |-> contexts]

\* what loadConfig returns when there is no configuration file
EmptyConfig == Config(<< >>, << >>, << >>, << >>, NoContexts)

\* \bgit\s+commit\b
CommitDetect == Expr(Cat(<<WB, Lit(<<"g","i","t">> (* git *)), Plus(WS), Lit(<<"c","o","m","m","i","t">> (* commit *)), WB>>))

CommitContext(relaxed) ==
  [documentation |-> ContextOff,
   commit_message |->
     [enabled |-> TRUE, file_extensions |-> << >>,
      command_patterns |-> <<InvalidExpr, CommitDetect>>, relaxed_checks |-> relaxed]]

DocContext(relaxed) ==
  [documentation |->
     [enabled |-> TRUE, file_extensions |-> <<<<".","m","d">> (* .md *), <<".","t","x","t">> (* .txt *)>>,
      command_patterns |-> << >>, relaxed_checks |-> relaxed],
   commit_message |-> ContextOff]

CfgDocumented ==
  Config(<<PRm, PDeleteAsk, PForce>>, <<SshDir, EnvFile>>, <<Bashrc>>, <<HooksDir>>,
         NoContexts)

CfgAskFirst ==
  Config(<<PRmAsk, PRm>>, <<PemGlob, EnvFile>>, <<AppConf>>, <<Bashrc>>, NoContexts)

CfgBlockFirst ==
  Config(<<PInvalid, PRm, PEmpty, PRmAsk>>, <<EnvFile>>, <<SshDir>>, <<EnvFile>>,
         NoContexts)

CfgCommitPatterns ==
  Config(<<PRm, PForce>>, <<EnvFile>>, <<Bashrc>>, <<HooksDir>>,
         CommitContext({"bashToolPatterns", "noDeletePaths"}))

CfgCommitPaths ==
  Config(<<PRm>>, <<EnvFile>>, <<Bashrc>>, <<HooksDir>>,
         CommitContext({"semantic_git", "zeroAccessPaths", "readOnlyPaths"}))

BashConfigs ==
  {EmptyConfig, CfgDocumented, CfgAskFirst, CfgBlockFirst, CfgCommitPatterns,
   CfgCommitPaths}

\* one configuration per tier and rule, holding that rule alone
TierNames == {"zeroAccessPaths", "readOnlyPaths", "noDeletePaths"}

TierRules == {SshDir, Bashrc, EnvFile, PemGlob, AppConf}

TierConfig(tier, rule) ==
  Config(<< >>,
         IF tier = "zeroAccessPaths" THEN <<rule>> ELSE << >>,
         IF tier = "readOnlyPaths" THEN <<rule>> ELSE << >>,
         IF tier = "noDeletePaths" THEN <<rule>> ELSE << >>,
         NoContexts)

TierConfigs == {TierConfig(t, r) : t \in TierNames, r \in TierRules}

\* ------------------------------------------------------------------------
\* Inputs: commands
\* ------------------------------------------------------------------------

\* the paths a command can name that a rule covers: the rule itself for a
\* file, a file in it for a directory, in the written and the expanded form
Covered(rule) ==
  IF rule = SshDir THEN {SshDir \o <<"i","d","_","r","s","a">> (* id_rsa *), ExpandHome(SshDir) \o <<"i","d","_","r","s","a">> (* id_rsa *)}
  ELSE IF rule = HooksDir THEN {HooksDir \o <<"a",".","t","s">> (* a.ts *)}
  ELSE IF rule = PemGlob THEN {<<"k","e","y",".","p","e","m">> (* key.pem *)}
  ELSE {rule, ExpandHome(rule)}

\* what follows a file rule in the name of a sibling file
Suffixes == {<<".","e","x","a","m","p","l","e">> (* .example *), <<".","b","a","k">> (* .bak *), <<"-","o","l","d">> (* -old *), <<"_","1">>, <<"x">>}

IsFileRule(rule) == ~isGlobPattern(rule) /\ ~EndsWith(rule, <<"/">>)

Siblings(rule) ==
  IF IsFileRule(rule) THEN {rule \o x : x \in Suffixes} ELSE {}

\* a command form is <<kind, text before the path, text after the path>>
ReadForms == {<<"read", <<"c","a","t"," ">> (* cat  *), << >>>>, <<"read", <<"c","a","t"," ">> (* cat  *), <<" ","n","o","t","e","s",".","t","x","t">> (*  notes.txt *)>>}

CopyFromForms ==
  {<<"copyfrom", <<"c","p"," ">> (* cp  *), <<" ","/","t","m","p","/","x">> (*  /tmp/x *)>>, <<"copyfrom", <<"c","p"," ","-","p"," ">> (* cp -p  *), <<" ","/","t","m","p","/","x">> (*  /tmp/x *)>>}

WriteForms ==
  {<<"write", <<"e","c","h","o"," ","x"," ",">"," ">> (* echo x >  *), << >>>>, <<"write", <<"t","e","e"," ">> (* tee  *), << >>>>,
   <<"write", <<"e","c","h","o"," ","\"","x","\""," ",">"," ">>, << >>>>}

AppendForms == {<<"append", <<"e","c","h","o"," ","x"," ",">",">"," ">> (* echo x >>  *), << >>>>, <<"append", <<"t","e","e"," ","-","a"," ">> (* tee -a  *), << >>>>}

EditForms ==
  {<<"edit", <<"s","e","d"," ","-","i"," ","s","/","a","/","b","/"," ">> (* sed -i s/a/b/  *), << >>>>, <<"edit", <<"p","e","r","l"," ","-","p","i"," ","-","e"," ","s","/","a","/","b","/"," ">> (* perl -pi -e s/a/b/  *), << >>>>,
   <<"edit", <<"a","w","k"," ","-","i"," ","i","n","p","l","a","c","e"," ","1"," ">> (* awk -i inplace 1  *), << >>>>}

MoveCopyForms == {<<"move", <<"m","v"," ","a"," ">> (* mv a  *), << >>>>, <<"copy", <<"c","p"," ","a"," ">> (* cp a  *), << >>>>}

DeleteForms ==
  {<<"delete", <<"r","m"," ">> (* rm  *), << >>>>, <<"delete", <<"r","m"," ">> (* rm  *), <<" ","n","o","t","e","s",".","t","x","t">> (*  notes.txt *)>>,
   <<"delete", <<"u","n","l","i","n","k"," ">> (* unlink  *), << >>>>,
   <<"delete", <<"r","m","d","i","r"," ">> (* rmdir  *), << >>>>, <<"delete", <<"s","h","r","e","d"," ">> (* shred  *), << >>>>}

PermissionForms ==
  {<<"chmod", <<"c","h","m","o","d"," ","6","0","0"," ">> (* chmod 600  *), << >>>>, <<"chown", <<"c","h","o","w","n"," ","u"," ">> (* chown u  *), << >>>>,
   <<"chgrp", <<"c","h","g","r","p"," ","g"," ">> (* chgrp g  *), << >>>>}

TruncateForms == {<<"truncate", <<"t","r","u","n","c","a","t","e"," ","-","s"," ","0"," ">> (* truncate -s 0  *), << >>>>, <<"truncate", <<":"," ",">"," ">> (* : >  *), << >>>>}

ModifyForms ==
  WriteForms \cup AppendForms \cup EditForms \cup MoveCopyForms \cup PermissionForms
    \cup TruncateForms

Forms == ReadForms \cup CopyFromForms \cup ModifyForms \cup DeleteForms

\* a git command on the path that the git analysis asks about
GitForms == {<<"restore", <<"g","i","t"," ","c","h","e","c","k","o","u","t"," ","-","-"," ">> (* git checkout --  *), << >>>>}

OnPath(form, path) == form[2] \o path \o form[3]

\* bash -c "<command>"
InBash(command) == <<"b","a","s","h"," ","-","c"," ","\"">> \o command \o <<"\"">>

\* <command> ; bash -c "ls"
ThenBash(command) == command \o <<" ",";"," ","b","a","s","h"," ","-","c"," ","\"","l","s","\"">>

\* the forms that are also submitted inside and in front of a shell wrapper
WrappedForms ==
  {<<"read", <<"c","a","t"," ">> (* cat  *), << >>>>, <<"write", <<"e","c","h","o"," ","x"," ",">"," ">> (* echo x >  *), << >>>>, <<"delete", <<"r","m"," ">> (* rm  *), << >>>>,
   <<"write", <<"e","c","h","o"," ","\"","x","\""," ",">"," ">>, << >>>>}

TierCommands(rule) ==
  LET paths == Covered(rule) \cup Siblings(rule)
  IN  {OnPath(f, p) : f \in Forms \cup GitForms, p \in paths}
        \cup {InBash(OnPath(f, p)) : f \in WrappedForms, p \in Covered(rule)}
        \cup {ThenBash(OnPath(f, p)) : f \in WrappedForms, p \in Covered(rule)}

\* sh -c '<command>'
InSh(command) == <<"s","h"," ","-","c"," ","'">> (* sh -c ' *) \o command \o <<"'">>

\* env A=1 <command>
InEnv(command) == <<"e","n","v"," ","A","=","1"," ">> (* env A=1  *) \o command

\* bash -c \"<command>\", as written inside a double-quoted wrapper
InBashEscaped(command) == <<"b","a","s","h"," ","-","c"," ","\\","\"">> \o command \o <<"\\","\"">>

Wrap(kind, command) ==
  IF kind = "bash" THEN InBash(command)
  ELSE IF kind = "bash-escaped" THEN InBashEscaped(command)
  ELSE IF kind = "sh" THEN InSh(command)
  ELSE InEnv(command)

RECURSIVE NestOf(_, _)
\* the command inside the wrappers kinds[1], kinds[2], ..., outermost first
NestOf(kinds, command) ==
  IF kinds = << >> THEN command
  ELSE Wrap(Head(kinds), NestOf(Tail(kinds), command))

\* ways to nest wrappers, outermost first: env wrappers alone, two shells with
\* different quotes around env wrappers, two shells with the same quote (the
\* inner quotes as they are and escaped)
NestKinds ==
  {<<"env", "env", "env", "env", "env", "env">>,
   <<"bash", "sh", "env", "env", "env", "env">>,
   <<"bash", "bash">>, <<"bash", "bash-escaped">>}

Innermost == {<<"l","s">>, <<"g","i","t"," ","p","u","s","h"," ","-","-","f","o","r","c","e">> (* git push --force *)}

NestedCommands ==
  UNION {{NestOf(SubSeq(ks, 1, n), x) : n \in 1..Len(ks), x \in Innermost} :
           ks \in NestKinds}

GitCommands ==
  {<<"g","i","t"," ","s","t","a","t","u","s">> (* git status *), <<"g","i","t"," ","p","u","s","h"," ","-","-","f","o","r","c","e">> (* git push --force *), <<"g","i","t"," ","p","u","s","h"," ","-","-","f","o","r","c","e","-","w","i","t","h","-","l","e","a","s","e">> (* git push --force-with-lease *),
   <<"g","i","t"," ","p","u","s","h"," ","-","u","f"," ","o","r","i","g","i","n">> (* git push -uf origin *), <<"g","i","t"," ","r","e","s","e","t"," ","-","-","h","a","r","d">> (* git reset --hard *), <<"g","i","t"," ","r","e","s","e","t"," ","-","-","s","o","f","t"," ","H","E","A","D","~","1">> (* git reset --soft HEAD~1 *),
   <<"g","i","t"," ","c","l","e","a","n"," ","-","f","d">> (* git clean -fd *), <<"g","i","t"," ","c","h","e","c","k","o","u","t"," ","-","b"," ","f","e","a","t","u","r","e">> (* git checkout -b feature *), <<"g","i","t"," ","c","h","e","c","k","o","u","t"," ","-","-"," ",".","e","n","v">> (* git checkout -- .env *),
   <<"g","i","t"," ","c","h","e","c","k","o","u","t"," ","-","f"," ","m","a","i","n">> (* git checkout -f main *)}

GeneralCommands ==
  GitCommands \cup
  {<<"l","s">>, <<"r","m"," ","-","r","f"," ","/","t","m","p","/","x">> (* rm -rf /tmp/x *), <<"R","M"," ","-","R","f"," ","/","t","m","p","/","x">> (* RM -Rf /tmp/x *), <<"r","m"," ","/","t","m","p","/","x">> (* rm /tmp/x *), <<"r","m"," ","-","r","f"," ","~","/",".","s","s","h","/">> (* rm -rf ~/.ssh/ *),
   <<"c","a","t"," ",".","e","n","v">> (* cat .env *), <<"c","a","t"," ",".","e","n","v",".","e","x","a","m","p","l","e">> (* cat .env.example *), <<"c","a","t"," ",".","e","n","v"," ","n","o","t","e","s",".","t","x","t">> (* cat .env notes.txt *), <<"c","a","t"," ","k","e","y",".","p","e","m">> (* cat key.pem *),
   <<"c","a","t"," ","~","/",".","s","s","h","/","i","d","_","r","s","a">> (* cat ~/.ssh/id_rsa *), <<"e","c","h","o"," ","x"," ",">"," ","~","/",".","b","a","s","h","r","c">> (* echo x > ~/.bashrc *), <<"r","m"," ","~","/",".","b","a","s","h","r","c">> (* rm ~/.bashrc *),
   <<"r","m"," ",".","c","l","a","u","d","e","/","h","o","o","k","s","/","a",".","t","s">> (* rm .claude/hooks/a.ts *), <<"r","m"," ",".","e","n","v">> (* rm .env *), <<"t","e","e"," ","/","e","t","c","/","m","y","-","a","p","p",".","c","o","n","f">> (* tee /etc/my-app.conf *),
   <<"e","c","h","o"," ","D","E","L","E","T","E"," ","F","R","O","M"," ","t">> (* echo DELETE FROM t *), <<"b","a","s","h"," ","-","c"," ","\"","r","m"," ","-","r","f"," ","/","t","m","p","/","x","\"">>,
   <<"b","a","s","h"," ","-","c"," ","\"","g","i","t"," ","p","u","s","h"," ","-","-","f","o","r","c","e","\"">>, <<"e","n","v"," ","A","=","1"," ","r","m"," ","-","r","f"," ","/","t","m","p","/","x">> (* env A=1 rm -rf /tmp/x *),
   <<"p","y","t","h","o","n","3"," ","-","c"," ","\"","i","m","p","o","r","t"," ","o","s",";"," ","o","s",".","s","y","s","t","e","m","(","'","r","m"," ","-","r","f"," ","/","t","m","p","/","x","'",")","\"">>,
   <<"g","i","t"," ","c","o","m","m","i","t"," ","-","m"," ","\"","r","m"," ","-","r","f"," ","/","t","m","p","/","x","\"">>, <<"g","i","t"," ","c","o","m","m","i","t"," ","-","m"," ","x",";"," ","c","a","t"," ",".","e","n","v">> (* git commit -m x; cat .env *),
   <<"g","i","t"," ","c","o","m","m","i","t"," ","-","m"," ","x",";"," ","b","a","s","h"," ","-","c"," ","\"","r","m"," ","-","r","f"," ","/","t","m","p","/","x","\"">>,
   <<"g","i","t"," ","c","o","m","m","i","t"," ","-","m"," ","x"," ",";"," ","r","m"," ",".","c","l","a","u","d","e","/","h","o","o","k","s","/","a",".","t","s">> (* git commit -m x ; rm .claude/hooks/a.ts *), <<"g","i","t"," ","c","o","m","m","i","t"," ","-","a","m"," ","x",";"," ","g","i","t"," ","p","u","s","h"," ","-","-","f","o","r","c","e">> (* git commit -am x; git push --force *),
   <<"r","m"," ","-","r","f"," ","/","t","m","p","/","x"," ",";"," ","b","a","s","h"," ","-","c"," ","\"","l","s","\"">>, <<"b","a","s","h"," ","-","c"," ","\""," ","\"">>, <<"p","y","t","h","o","n","3"," ","-","c"," ","\""," ","\"">>}
    \cup NestedCommands

\* ---- git commands by argument list ---------------------------------------

GitSubcommands == {<<"c","h","e","c","k","o","u","t">> (* checkout *), <<"p","u","s","h">> (* push *), <<"r","e","s","e","t">> (* reset *), <<"c","l","e","a","n">> (* clean *)}

\* the arguments a git command is built from
GitVocab(subcommand) ==
  IF subcommand = <<"c","h","e","c","k","o","u","t">> (* checkout *)
    THEN {<<"-","b">>, <<"-","-","b","r","a","n","c","h">> (* --branch *), <<"-","-">>, <<"-","-","f","o","r","c","e">> (* --force *), <<"-","f">>, <<"-","q","f">> (* -qf *), <<"m","a","i","n">> (* main *)}
  ELSE IF subcommand = <<"p","u","s","h">> (* push *)
    THEN {<<"-","-","f","o","r","c","e","-","w","i","t","h","-","l","e","a","s","e">> (* --force-with-lease *), <<"-","-","f","o","r","c","e","-","w","i","t","h","-","l","e","a","s","e","=","m","a","i","n">> (* --force-with-lease=main *), <<"-","-","f","o","r","c","e">> (* --force *), <<"-","f">>, <<"-","u","f">> (* -uf *),
          <<"o","r","i","g","i","n">> (* origin *)}
  ELSE IF subcommand = <<"r","e","s","e","t">> (* reset *)
    THEN {<<"-","-","s","o","f","t">> (* --soft *), <<"-","-","m","i","x","e","d">> (* --mixed *), <<"-","-","h","a","r","d">> (* --hard *), <<"H","E","A","D","~","1">> (* HEAD~1 *)}
  ELSE {<<"-","f">>, <<"-","d">>, <<"-","f","d">> (* -fd *), <<"-","x","f">> (* -xf *), <<"-","n","d">> (* -nd *), <<"-","n">>, <<"-","-","d","r","y","-","r","u","n">> (* --dry-run *)}

MaxGitArgs == 3

RECURSIVE ArgLists(_, _)
\* the argument lists over vocab of at most n arguments
ArgLists(vocab, n) ==
  IF n = 0 THEN {<< >>}
  ELSE LET shorter == ArgLists(vocab, n - 1)
       IN  shorter \cup {Append(s, a) : s \in shorter, a \in vocab}

\* git <subcommand> <args>
GitCommand(subcommand, args) == JoinWith(<<<<"g","i","t">> (* git *), subcommand>> \o args, <<" ">>)

GitArgCommands ==
  UNION {{GitCommand(s, a) : a \in ArgLists(GitVocab(s), MaxGitArgs)} : s \in GitSubcommands}

\* git commands with a subcommand the analysis has no opinion on
OtherSubcommands == {<<"b","r","a","n","c","h">> (* branch *), <<"s","t","a","s","h">> (* stash *)}

OtherVocab == {<<"-","-","f","o","r","c","e">> (* --force *), <<"-","f">>, <<"-","-","h","a","r","d">> (* --hard *), <<"-","f","d">> (* -fd *), <<"-","-">>}

OtherGitCommands ==
  {GitCommand(s, a) : s \in OtherSubcommands, a \in ArgLists(OtherVocab, MaxGitArgs)}

\* commands that hold a dangerous git command but do not start with it
NotGitCommands ==
  {p \o c : p \in {<<"s","u","d","o"," ">> (* sudo  *), <<"c","d"," ","r","e","p","o"," ","&","&"," ">> (* cd repo &&  *), <<"e","c","h","o"," ">> (* echo  *), <<"g","i","t","k"," ",";"," ">> (* gitk ;  *)},
            c \in {<<"g","i","t"," ","p","u","s","h"," ","-","-","f","o","r","c","e">> (* git push --force *), <<"g","i","t"," ","r","e","s","e","t"," ","-","-","h","a","r","d">> (* git reset --hard *), <<"g","i","t"," ","c","l","e","a","n"," ","-","f","d">> (* git clean -fd *),
                   <<"g","i","t"," ","c","h","e","c","k","o","u","t"," ","-","-"," ","m","a","i","n">> (* git checkout -- main *)}}

\* ------------------------------------------------------------------------
\* The hook processes
\* ------------------------------------------------------------------------
\* One behaviour is one invocation of one hook.  The environment is fixed
\* when the process starts: the hook that runs, CLAUDE_DISABLE_HOOKS, the
\* configuration file and the text on standard input.

VARIABLES
  hook,        \* "bash" or "write": the script that was started
  disabled,    \* CLAUDE_DISABLE_HOOKS names damage-control
  configFile,  \* <<config>> as parsed from patterns.yaml, << >> if reading it throws
  stdin,       \* the request: [valid, payload, tool_name, command, file_path]
  pc,          \* the position in main()
  cache,       \* _compiledConfigCache (Bash) or config (Write): << >> or <<config>>
  context,     \* what detectContext returned
  result,      \* << >> or <<what checkCommand or checkPath returned>>
  audit,       \* the decision records appended to the log
  stdout,      \* what was written to standard output
  stderr,      \* what was written to standard error
  exitCode     \* the exit code, -1 while the process runs

vars ==
  <<hook, disabled, configFile, stdin, pc, cache, context, result, audit, stdout,
    stderr, exitCode>>

env == <<hook, disabled, configFile, stdin>>

\* payload is what JSON.parse returned: "object" for a request whose fields
\* are strings, "untyped" for one whose command or file_path is the number 5
\* (kept as the text it converts to), "null" for the JSON value null
Payload(valid, payload, tool, command, path) ==
  [valid |-> valid, payload |-> payload, tool_name |-> tool, command |-> command,
   file_path |-> path]

Request(tool, command, path) == Payload(TRUE, "object", tool, command, path)

\* text that JSON.parse rejects
BadRequest == Payload(FALSE, "text", "", << >>, << >>)

NullRequest == Payload(TRUE, "null", "", << >>, << >>)

UntypedRequests ==
  {Payload(TRUE, "untyped", "Bash", <<"5">>, << >>),
   Payload(TRUE, "untyped", "Write", << >>, <<"5">>)}

BashRequest(command) == Request("Bash", command, << >>)

WriteRequest(path) == Request("Write", << >>, path)

\* requests that end the hook before any rule is looked at
OtherRequests ==
  {BadRequest, NullRequest, BashRequest(<< >>), WriteRequest(<< >>),
   Request("Read", << >>, <<"n","o","t","e","s",".","t","x","t">> (* notes.txt *))} \cup UntypedRequests

Started(h, d, f, r) ==
  /\ hook = h /\ disabled = d /\ configFile = f /\ stdin = r
  /\ pc = "start" /\ cache = << >> /\ context = NoContext /\ result = << >>
  /\ audit = << >> /\ stdout = << >> /\ stderr = << >> /\ exitCode = -1

Exit(code) == pc' = "done" /\ exitCode' = code

\* ---- Bash hook -----------------------------------------------------------

\* if (isHookDisabled()) process.exit(0)
BashDisabled ==
  /\ hook = "bash" /\ pc = "start" /\ disabled
  /\ Exit(0)
  /\ UNCHANGED <<env, cache, context, result, audit, stdout, stderr>>

\* getCompiledConfig(): the cache is empty, so the file is loaded and compiled
BashGetConfig ==
  /\ hook = "bash" /\ pc = "start" /\ ~disabled /\ configFile # << >>
  /\ cache' = <<compileConfig(configFile[1])>>
  /\ stderr' = stderr \o WarningsFrom(configFile[1].bashToolPatterns, 1)
  /\ pc' = "input"
  /\ UNCHANGED <<env, context, result, audit, stdout, exitCode>>

\* a variant that ends with the BLOCK signal
BashFailOpen_Blocks ==
  /\ hook = "bash" /\ pc = "start" /\ ~disabled /\ configFile = << >>
  /\ stderr' = Append(stderr, <<"Hook error">>)
  /\ Exit(2)
  /\ UNCHANGED <<env, cache, context, result, audit, stdout>>

\* loadConfig throws; main().catch reports it and exits 0
BashFailOpen ==
  /\ hook = "bash" /\ pc = "start" /\ ~disabled /\ configFile = << >>
  /\ stderr' = Append(stderr, <<"Hook error">>)
  /\ Exit(0)
  /\ UNCHANGED <<env, cache, context, result, audit, stdout>>

\* JSON.parse throws
BashParseError ==
  /\ hook = "bash" /\ pc = "input" /\ ~stdin.valid
  /\ stderr' = Append(stderr, <<"Error: Invalid JSON input">>)
  /\ Exit(1)
  /\ UNCHANGED <<env, cache, context, result, audit, stdout>>

\* input is null: reading input.tool_name throws; main().catch exits 0
BashPayloadError ==
  /\ hook = "bash" /\ pc = "input" /\ stdin.valid /\ stdin.payload = "null"
  /\ stderr' = Append(stderr, <<"Hook error">>)
  /\ Exit(0)
  /\ UNCHANGED <<env, cache, context, result, audit, stdout>>

\* if (input.tool_name !== "Bash") process.exit(0)
BashSkipTool ==
  /\ hook = "bash" /\ pc = "input" /\ stdin.valid /\ stdin.payload # "null"
  /\ stdin.tool_name # "Bash"
  /\ Exit(0)
  /\ UNCHANGED <<env, cache, context, result, audit, stdout, stderr>>

\* if (!command) process.exit(0)
BashSkipEmpty ==
  /\ hook = "bash" /\ pc = "input" /\ stdin.valid /\ stdin.tool_name = "Bash"
  /\ stdin.command = << >>
  /\ Exit(0)
  /\ UNCHANGED <<env, cache, context, result, audit, stdout, stderr>>

BashDetectContext ==
  /\ hook = "bash" /\ pc = "input" /\ stdin.valid /\ stdin.tool_name = "Bash"
  /\ stdin.command # << >>
  /\ context' = detectContext(stdin.tool_name, stdin, cache[1])
  /\ pc' = "context"
  /\ UNCHANGED <<env, cache, result, audit, stdout, stderr, exitCode>>

\* command is no string: command.trim() in unwrapCommand throws;
\* main().catch exits 0
BashCheckError ==
  /\ hook = "bash" /\ pc = "context" /\ stdin.payload = "untyped"
  /\ stderr' = Append(stderr, <<"Hook error">>)
  /\ Exit(0)
  /\ UNCHANGED <<env, cache, context, result, audit, stdout>>

\* a variant in which the evaluation empties the cached configuration
BashCheckCommand_ClearsCache ==
  /\ hook = "bash" /\ pc = "context" /\ stdin.payload = "object"
  /\ result' = <<checkCommand(stdin.command, cache[1], context)>>
  /\ cache' = <<compileConfig(EmptyConfig)>>
  /\ pc' = "checked"
  /\ UNCHANGED <<env, context, audit, stdout, stderr, exitCode>>

BashCheckCommand ==
  /\ hook = "bash" /\ pc = "context" /\ stdin.payload = "object"
  /\ result' = <<checkCommand(stdin.command, cache[1], context)>>
  /\ pc' = "checked"
  /\ UNCHANGED <<env, cache, context, audit, stdout, stderr, exitCode>>

Decision(r) == IF r.blocked THEN "blocked" ELSE IF r.ask THEN "ask" ELSE "allowed"

\* logDecision(...), then spawnLogRotation()
BashLogDecision ==
  /\ hook = "bash" /\ pc = "checked"
  /\ audit' = Append(audit,
       [tool |-> stdin.tool_name, decision |-> Decision(result[1]),
        reason |-> result[1].reason, pattern_matched |-> result[1].patternMatched,
        unwrapped |-> result[1].wasUnwrapped,
        semantic_match |-> result[1].semanticMatch, context |-> context])
  /\ pc' = "logged"
  /\ UNCHANGED <<env, cache, context, result, stdout, stderr, exitCode>>

BashExitBlock ==
  /\ hook = "bash" /\ pc = "logged" /\ result[1].blocked
  /\ stderr' = Append(stderr, <<"SECURITY", result[1].reason>>)
  /\ Exit(2)
  /\ UNCHANGED <<env, cache, context, result, audit, stdout>>

\* a variant that asks without a payload
BashExitAsk_NoPayload ==
  /\ hook = "bash" /\ pc = "logged" /\ ~result[1].blocked /\ result[1].ask
  /\ Exit(0)
  /\ UNCHANGED <<env, cache, context, result, audit, stdout, stderr>>

BashExitAsk ==
  /\ hook = "bash" /\ pc = "logged" /\ ~result[1].blocked /\ result[1].ask
  /\ stdout' = Append(stdout,
       [hookEventName |-> "PreToolUse", permissionDecision |-> "ask",
        permissionDecisionReason |-> result[1].reason])
  /\ Exit(0)
  /\ UNCHANGED <<env, cache, context, result, audit, stderr>>

BashExitAllow ==
  /\ hook = "bash" /\ pc = "logged" /\ ~result[1].blocked /\ ~result[1].ask
  /\ Exit(0)
  /\ UNCHANGED <<env, cache, context, result, audit, stdout, stderr>>

NextBash ==
  \/ BashDisabled \/ BashGetConfig \/ BashFailOpen \/ BashParseError
  \/ BashPayloadError \/ BashSkipTool \/ BashSkipEmpty \/ BashDetectContext
  \/ BashCheckError \/ BashCheckCommand \/ BashLogDecision
  \/ BashExitBlock \/ BashExitAsk \/ BashExitAllow

\* ---- Write hook ----------------------------------------------------------

\* const config = loadConfig()
WriteLoadConfig ==
  /\ hook = "write" /\ pc = "start" /\ configFile # << >>
  /\ cache' = <<configFile[1]>>
  /\ pc' = "input"
  /\ UNCHANGED <<env, context, result, audit, stdout, stderr, exitCode>>

WriteFailOpen ==
  /\ hook = "write" /\ pc = "start" /\ configFile = << >>
  /\ stderr' = Append(stderr, <<"Hook error">>)
  /\ Exit(0)
  /\ UNCHANGED <<env, cache, context, result, audit, stdout>>

\* a variant that lets the request pass
WriteParseError_Allows ==
  /\ hook = "write" /\ pc = "input" /\ ~stdin.valid
  /\ stderr' = Append(stderr, <<"Error: Invalid JSON input">>)
  /\ Exit(0)
  /\ UNCHANGED <<env, cache, context, result, audit, stdout>>

\* JSON.parse throws
WriteParseError ==
  /\ hook = "write" /\ pc = "input" /\ ~stdin.valid
  /\ stderr' = Append(stderr, <<"Error: Invalid JSON input">>)
  /\ Exit(1)
  /\ UNCHANGED <<env, cache, context, result, audit, stdout>>

WritePayloadError ==
  /\ hook = "write" /\ pc = "input" /\ stdin.valid /\ stdin.payload = "null"
  /\ stderr' = Append(stderr, <<"Hook error">>)
  /\ Exit(0)
  /\ UNCHANGED <<env, cache, context, result, audit, stdout>>

\* if (input.tool_name !== "Write") process.exit(0)
WriteSkipTool ==
  /\ hook = "write" /\ pc = "input" /\ stdin.valid /\ stdin.payload # "null"
  /\ stdin.tool_name # "Write"
  /\ Exit(0)
  /\ UNCHANGED <<env, cache, context, result, audit, stdout, stderr>>

\* if (!filePath) process.exit(0)
WriteSkipEmpty ==
  /\ hook = "write" /\ pc = "input" /\ stdin.valid /\ stdin.tool_name = "Write"
  /\ stdin.file_path = << >>
  /\ Exit(0)
  /\ UNCHANGED <<env, cache, context, result, audit, stdout, stderr>>

\* file_path is no string: filePath.endsWith(ext) throws in detectContext
\* when the documentation context has an extension to compare with
DetectThrows ==
  /\ stdin.payload = "untyped"
  /\ cache[1].contexts.documentation.enabled
  /\ cache[1].contexts.documentation.file_extensions # << >>

\* file_path is no string: normalize(filePath) throws in matchPath when
\* checkPath has a rule to compare with
CheckThrows ==
  /\ stdin.payload = "untyped"
  /\ \/ "zeroAccessPaths" \notin RelaxedChecks(cache[1], context)
          /\ cache[1].zeroAccessPaths # << >>
     \/ "readOnlyPaths" \notin RelaxedChecks(cache[1], context)
          /\ cache[1].readOnlyPaths # << >>

\* detectContext throws; main().catch exits 0
WriteContextError ==
  /\ hook = "write" /\ pc = "input" /\ stdin.valid /\ stdin.tool_name = "Write"
  /\ stdin.file_path # << >> /\ DetectThrows
  /\ stderr' = Append(stderr, <<"Hook error">>)
  /\ Exit(0)
  /\ UNCHANGED <<env, cache, context, result, audit, stdout>>

\* checkPath throws; main().catch exits 0
WriteCheckError ==
  /\ hook = "write" /\ pc = "context" /\ CheckThrows
  /\ stderr' = Append(stderr, <<"Hook error">>)
  /\ Exit(0)
  /\ UNCHANGED <<env, cache, context, result, audit, stdout>>

WriteDetectContext ==
  /\ hook = "write" /\ pc = "input" /\ stdin.valid /\ stdin.tool_name = "Write"
  /\ stdin.file_path # << >> /\ ~DetectThrows
  /\ context' = detectContext(stdin.tool_name, stdin, cache[1])
  /\ pc' = "context"
  /\ UNCHANGED <<env, cache, result, audit, stdout, stderr, exitCode>>

WriteCheckPath ==
  /\ hook = "write" /\ pc = "context" /\ ~CheckThrows
  /\ result' = <<checkPath(stdin.file_path, cache[1], context)>>
  /\ pc' = "checked"
  /\ UNCHANGED <<env, cache, context, audit, stdout, stderr, exitCode>>

WriteLogDecision ==
  /\ hook = "write" /\ pc = "checked"
  /\ audit' = Append(audit,
       [tool |-> "Write", decision |-> IF result[1].blocked THEN "blocked" ELSE "allowed",
        reason |-> result[1].reason, context |-> context])
  /\ pc' = "logged"
  /\ UNCHANGED <<env, cache, context, result, stdout, stderr, exitCode>>

WriteExitBlock ==
  /\ hook = "write" /\ pc = "logged" /\ result[1].blocked
  /\ stderr' = Append(stderr, <<"SECURITY", result[1].reason>>)
  /\ Exit(2)
  /\ UNCHANGED <<env, cache, context, result, audit, stdout>>

WriteExitAllow ==
  /\ hook = "write" /\ pc = "logged" /\ ~result[1].blocked
  /\ Exit(0)
  /\ UNCHANGED <<env, cache, context, result, audit, stdout, stderr>>

NextWrite ==
  \/ WriteLoadConfig \/ WriteFailOpen \/ WriteParseError \/ WritePayloadError
  \/ WriteSkipTool \/ WriteSkipEmpty \/ WriteContextError \/ WriteDetectContext
  \/ WriteCheckError \/ WriteCheckPath \/ WriteLogDecision
  \/ WriteExitBlock \/ WriteExitAllow

\* ---- Write hook inputs ---------------------------------------------------

\* the characters a sibling file name continues with
NameChars == {"a", "Z", "7", ".", "_", "-"}

MaxSuffixLen == 2

RECURSIVE StringsUpTo(_, _)
\* the non-empty strings over chars of at most n characters
StringsUpTo(chars, n) ==
  IF n = 0 THEN {}
  ELSE LET shorter == StringsUpTo(chars, n - 1)
       IN  {<<c>> : c \in chars} \cup shorter \cup {Append(s, c) : s \in shorter, c \in chars}

NameSuffixes == StringsUpTo(NameChars, MaxSuffixLen)

WriteRules ==
  {<<"~","/",".","e","n","v">> (* ~/.env *), <<"/","e","t","c","/","p","a","s","s","w","d">> (* /etc/passwd *), <<"a","/",".">> (* a/. *), <<".">>, <<"~","/",".","s","s","h","/">> (* ~/.ssh/ *), <<"/","a","/","b","/">> (* /a/b/ *), <<".","/","s","e","c","r","e","t","s","/">> (* ./secrets/ *), <<"*",".","p","e","m">> (* *.pem *)}

WriteConfig(zero, ro, contexts) ==
  [zeroAccessPaths |-> zero, readOnlyPaths |-> ro, contexts |-> contexts]

WriteConfigs ==
  {WriteConfig(<<r>>, << >>, NoContexts) : r \in WriteRules}
    \cup {WriteConfig(<< >>, <<r>>, NoContexts) : r \in WriteRules}
    \cup {WriteConfig(<<<<"~","/",".","s","s","h","/">> (* ~/.ssh/ *)>>, <<<<"~","/",".","e","n","v">> (* ~/.env *), <<"/","a","/","b","/">> (* /a/b/ *)>>,
                      DocContext({"readOnlyPaths"}))}

\* the paths written under a configuration: for each rule the rule itself,
\* without its trailing separator, continued by name characters, and a file
\* beneath it
WritePathsFor(config) ==
  LET rules == {config.zeroAccessPaths[i] : i \in 1..Len(config.zeroAccessPaths)}
                 \cup {config.readOnlyPaths[i] : i \in 1..Len(config.readOnlyPaths)}
  IN  UNION {{r, StripSlash(r), r \o <<"/","x",".","m","d">> (* /x.md *), StripSlash(r) \o <<"/","s","u","b","/",".",".","/","x">> (* /sub/../x *), ExpandHome(r),
               r \o <<"k","e","y">> (* key *), r \o <<"x","/","y",".","m","d">> (* x/y.md *), r \o <<".",".","/","c">> (* ../c *)}
               \cup {StripSlash(r) \o x : x \in NameSuffixes}
               \cup {<<".","/">> \o StripSlash(r) \o x : x \in NameSuffixes} : r \in rules}
        \cup {<<"n","o","t","e","s",".","m","d">> (* notes.md *), <<"k","e","y",".","p","e","m">> (* key.pem *), <<"/","a","/","b","c">> (* /a/bc *), <<"/","a","/","b">> (* /a/b *), <<"/","a","/","b","/","c","/",".",".","/",".",".","/","b","/","x">> (* /a/b/c/../../b/x *)}

\* ---- Specifications ------------------------------------------------------

\* either hook, under the general configurations
Init ==
  \/ \E d \in BOOLEAN, f \in {<<c>> : c \in BashConfigs} \cup {<< >>},
        r \in {BashRequest(c) : c \in GeneralCommands} \cup OtherRequests :
       Started("bash", d, f, r)
  \/ \E f \in {<<c>> : c \in WriteConfigs} \cup {<< >>},
        r \in OtherRequests \cup {WriteRequest(<<"~","/",".","e","n","v",".","e","x","a","m","p","l","e">> (* ~/.env.example *)), WriteRequest(<<"/","a","/","b","/","x",".","m","d">> (* /a/b/x.md *))} :
       Started("write", FALSE, f, r)

Next == NextBash \/ NextWrite

Spec == Init /\ [][Next]_vars

\* the Bash hook under one path rule in one tier, given the commands that
\* name a path the rule covers or a sibling of it
InitTier ==
  \E d \in BOOLEAN, t \in TierNames, rule \in TierRules :
    \/ \E r \in {BashRequest(c) : c \in TierCommands(rule)} \cup OtherRequests :
         Started("bash", d, <<TierConfig(t, rule)>>, r)
    \/ Started("bash", d, << >>, BadRequest)

SpecTier == InitTier /\ [][NextBash]_vars

\* the Write hook
InitWrite ==
  \/ \E c \in WriteConfigs :
       \E r \in {WriteRequest(p) : p \in WritePathsFor(c)} \cup OtherRequests :
         Started("write", FALSE, <<c>>, r)
  \/ Started("write", FALSE, << >>, BadRequest)

SpecWrite == InitWrite /\ [][NextWrite]_vars

\* the Bash hook under the documented configuration, given git commands
InitGit ==
  \/ \E r \in {BashRequest(c) : c \in GitArgCommands \cup OtherGitCommands \cup NotGitCommands} :
       Started("bash", FALSE, <<CfgDocumented>>, r)
  \/ \E d \in BOOLEAN, f \in {<<CfgDocumented>>, << >>}, r \in OtherRequests :
       Started("bash", d, f, r)

SpecGit == InitGit /\ [][NextBash]_vars

\* the same process evaluates the request once more before it logs:
\* getCompiledConfig() returns the cached configuration, detectContext and
\* checkCommand run again, and the second CheckResult is kept after the first
BashCheckAgain ==
  /\ hook = "bash" /\ pc = "checked" /\ Len(result) = 1
  /\ result' = Append(result,
       checkCommand(stdin.command, cache[1],
                    detectContext(stdin.tool_name, stdin, cache[1])))
  /\ UNCHANGED <<env, pc, cache, context, audit, stdout, stderr, exitCode>>

InitRepeat ==
  \E d \in BOOLEAN, f \in {<<c>> : c \in BashConfigs} \cup {<< >>},
     r \in {BashRequest(c) : c \in GeneralCommands} \cup OtherRequests :
    Started("bash", d, f, r)

NextRepeat == NextBash \/ BashCheckAgain

SpecRepeat == InitRepeat /\ [][NextRepeat]_vars

\* ------------------------------------------------------------------------
\* Properties
\* ------------------------------------------------------------------------

BashChecked == hook = "bash" /\ result # << >>

WriteChecked == hook = "write" /\ result # << >>

Verdict == Decision(result[1])

SeqToSet(q) == {q[i] : i \in 1..Len(q)}

\* the positions in the configured list of the patterns that match u
MatchingPatterns(u, config) ==
  LET ps == config.bashToolPatterns
  IN  {i \in 1..Len(ps) : ps[i].pattern.kind = "valid" /\ Test(ps[i].pattern.re, u, TRUE)}

\* the rules of a tier one of whose operation templates matches u
OperationMatches(u, rules, templates) ==
  {rule \in SeqToSet(rules) :
     \E k \in 1..Len(templates) : TemplateHits(u, PathObject(rule), templates[k])}

\* What matches the command the checks are evaluated on: the verdict of the
\* git analyzer, the matching patterns, and the matching rules of each tier.
Facts ==
  LET u == unwrapCommand(stdin.command, 0).cmd
      config == cache[1]
  IN  [cmd |-> u,
       relaxed |-> RelaxedChecks(config, context),
       git |-> analyzeGitCommand(u).dangerous,
       patterns |-> MatchingPatterns(u, config),
       zero |-> {rule \in SeqToSet(config.zeroAccessPaths) :
                   ZeroAccessHits(u, PathObject(rule))},
       readOnly |-> OperationMatches(u, config.readOnlyPaths, READ_ONLY_BLOCKED),
       noDelete |-> OperationMatches(u, config.noDeletePaths, DELETE_PATTERNS)]

\* the steps in the documented order: <<category, matches, verdict>>
OrderedSteps(f) ==
  << <<"semantic_git", f.git, "ask">>,
     <<"bashToolPatterns", f.patterns # {},
       IF f.patterns # {} /\ cache[1].bashToolPatterns[SetMin(f.patterns)].ask
         THEN "ask" ELSE "blocked">>,
     <<"zeroAccessPaths", f.zero # {}, "blocked">>,
     <<"readOnlyPaths", f.readOnly # {}, "blocked">>,
     <<"noDeletePaths", f.noDelete # {}, "blocked">> >>

DecidingSteps(f) ==
  LET steps == OrderedSteps(f)
  IN  {k \in 1..Len(steps) : steps[k][1] \notin f.relaxed /\ steps[k][2]}

\* C1: the verdict of checkCommand is the verdict of the first step, in the
\* order git analysis, patterns, zero-access, read-only, no-delete, that is
\* not relaxed and matches the unwrapped command; it is ALLOW exactly when no
\* such step matches.
C1_FirstStepDecides ==
  BashChecked =>
    LET f == Facts
        deciding == DecidingSteps(f)
    IN  /\ deciding # {} => Verdict = OrderedSteps(f)[SetMin(deciding)][3]
        /\ deciding = {} <=> Verdict = "allowed"

\* a pattern that asks decided although a zero-access rule matches as well
C1_Witness ==
  /\ BashChecked
  /\ Verdict = "ask"
  /\ LET deciding == DecidingSteps(Facts)
     IN  {2, 3} \subseteq deciding /\ 1 \notin deciding

\* C2: a command the git analyzer reports as dangerous, with semantic_git not
\* relaxed, gets ASK with semanticMatch set and never BLOCK, whatever else of
\* the configuration matches it.
C2_GitAlwaysAsks ==
  BashChecked =>
    LET u == unwrapCommand(stdin.command, 0).cmd
    IN  ("semantic_git" \notin RelaxedChecks(cache[1], context)
           /\ analyzeGitCommand(u).dangerous) =>
          /\ result[1].ask
          /\ ~result[1].blocked
          /\ result[1].semanticMatch

\* a dangerous git command that a blocking pattern matches too
C2_Witness ==
  /\ BashChecked
  /\ result[1].semanticMatch
  /\ Verdict = "ask"
  /\ LET f == Facts
     IN  /\ f.git
         /\ {"semantic_git", "bashToolPatterns"} \cap f.relaxed = {}
         /\ \E i \in f.patterns : ~cache[1].bashToolPatterns[i].ask

\* the pattern step is reached and some configured pattern matches
PatternsDecide(f) ==
  /\ "semantic_git" \in f.relaxed \/ ~f.git
  /\ "bashToolPatterns" \notin f.relaxed
  /\ f.patterns # {}

\* C3: the first configured pattern that matches the unwrapped command decides
\* alone: BLOCK without the ask flag, ASK with it, and the reason reported is
\* that pattern's reason (after the fixed text "Blocked: " for a BLOCK),
\* whatever later patterns match.
C3_FirstPatternWins ==
  BashChecked =>
    LET u == unwrapCommand(stdin.command, 0).cmd
        relaxed == RelaxedChecks(cache[1], context)
        matching == MatchingPatterns(u, cache[1])
        first == cache[1].bashToolPatterns[SetMin(matching)]
    IN  (/\ "semantic_git" \in relaxed \/ ~analyzeGitCommand(u).dangerous
         /\ "bashToolPatterns" \notin relaxed
         /\ matching # {}) =>
          /\ Verdict = (IF first.ask THEN "ask" ELSE "blocked")
          /\ result[1].reason.text = first.reason
          /\ result[1].reason.prefix = (IF first.ask THEN "" ELSE "Blocked: ")

\* the first matching pattern asks and a later matching pattern blocks
C3_Witness ==
  /\ BashChecked
  /\ Verdict = "ask"
  /\ LET f == Facts
     IN  /\ PatternsDecide(f)
         /\ cache[1].bashToolPatterns[SetMin(f.patterns)].ask
         /\ \E i \in f.patterns : ~cache[1].bashToolPatterns[i].ask

\* ---- the path tiers (one rule in one tier) ---------------------------------

\* the command is exactly one of the forms applied to one of the paths
Direct(command, forms, paths) ==
  \E f \in forms, p \in paths : command = OnPath(f, p)

\* the forms in which nothing follows the path
SimpleForms(forms) == {f \in forms : f[3] = << >>}

\* neither the git analysis nor a pattern decides
EarlierSilent(f) ==
  /\ "semantic_git" \in f.relaxed \/ ~f.git
  /\ "bashToolPatterns" \in f.relaxed \/ f.patterns = {}

\* C4: zero-access denies every operation, reads included: a command that
\* names a path covered by a zero-access rule, with zeroAccessPaths not
\* relaxed and no earlier step matching, is blocked whatever the operation.
C4_ZeroAccessDeniesAll ==
  BashChecked =>
    \A i \in 1..Len(cache[1].zeroAccessPaths) :
      (/\ Direct(stdin.command, Forms \cup GitForms,
                 Covered(cache[1].zeroAccessPaths[i]))
       /\ LET f == Facts
          IN  "zeroAccessPaths" \notin f.relaxed /\ EarlierSilent(f)) =>
        Verdict = "blocked"

\* C5: read-only denies every modifying operation: a command that writes,
\* appends, edits in place, moves or copies onto, deletes, changes the
\* permissions of or truncates a path covered by a read-only rule that is not
\* zero-access is blocked.
C5_ReadOnlyDeniesModifying ==
  BashChecked =>
    \A i \in 1..Len(cache[1].readOnlyPaths) :
      LET rule == cache[1].readOnlyPaths[i]
      IN  (/\ rule \notin SeqToSet(cache[1].zeroAccessPaths)
           /\ Direct(stdin.command, SimpleForms(ModifyForms \cup DeleteForms),
                     Covered(rule))
           /\ LET f == Facts
              IN  "readOnlyPaths" \notin f.relaxed /\ EarlierSilent(f)) =>
            Verdict = "blocked"

\* C6: read-only permits reading: a command that only reads a path covered by
\* a read-only rule that is not zero-access (cat, or cp with the path as the
\* source, with or without option flags) is not matched by the read-only step
\* and is allowed when no other step matches.
C6_ReadOnlyPermitsReading ==
  BashChecked =>
    \A i \in 1..Len(cache[1].readOnlyPaths) :
      LET rule == cache[1].readOnlyPaths[i]
      IN  (/\ rule \notin SeqToSet(cache[1].zeroAccessPaths)
           /\ Direct(stdin.command, ReadForms \cup CopyFromForms, Covered(rule))) =>
            LET f == Facts
            IN  /\ f.readOnly = {}
                /\ (EarlierSilent(f) /\ f.zero = {} /\ f.noDelete = {}) =>
                     Verdict = "allowed"

\* C7: no-delete forbids only removal: for a no-delete rule that is in no
\* other tier, a command that deletes a covered path is blocked, and a command
\* that reads, writes, appends, edits, moves or copies onto or changes the
\* permissions of it is not matched by the no-delete step and is allowed when
\* no other step matches.
C7_NoDeleteOnlyRemoval ==
  BashChecked =>
    \A i \in 1..Len(cache[1].noDeletePaths) :
      LET rule == cache[1].noDeletePaths[i]
          f == Facts
          others == EarlierSilent(f) /\ f.zero = {} /\ f.readOnly = {}
      IN  rule \notin SeqToSet(cache[1].zeroAccessPaths \o cache[1].readOnlyPaths) =>
            /\ (/\ Direct(stdin.command, DeleteForms, Covered(rule))
                /\ "noDeletePaths" \notin f.relaxed
                /\ others) => Verdict = "blocked"
            /\ Direct(stdin.command, ReadForms \cup CopyFromForms \cup ModifyForms,
                      Covered(rule)) =>
                 /\ f.noDelete = {}
                 /\ others => Verdict = "allowed"

\* the rule R is literal and has no trailing separator, and the path is R
\* followed by a name character and further characters that are no separator
NameExtension(path, R) ==
  /\ ~isGlobPattern(R)
  /\ R # << >> /\ R[Len(R)] # "/"
  /\ Len(path) > Len(R)
  /\ SubSeq(path, 1, Len(R)) = R
  /\ path[Len(R) + 1] \in WordChars \cup {".", "-"}
  /\ \A k \in (Len(R) + 1)..Len(path) : path[k] # "/"

\* C8: in the Write hook, a literal rule R without a trailing separator does
\* not match the path R followed by a letter, digit, ".", "_" or "-" and any
\* further characters that are no separator; when every configured rule is in
\* that case the write is not blocked.
C8_WriteNoPartialName ==
  WriteChecked =>
    LET rules == SeqToSet(cache[1].zeroAccessPaths \o cache[1].readOnlyPaths)
    IN  /\ \A R \in rules :
             NameExtension(stdin.file_path, R) => ~matchPath(stdin.file_path, R)
        /\ (\A R \in rules : NameExtension(stdin.file_path, R)) => ~result[1].blocked

\* the path ~/.env.example, or another name that continues the rule, is
\* written under the rule ~/.env and the write is let through
C8_Witness ==
  /\ WriteChecked
  /\ ~result[1].blocked
  /\ context = NoContext
  /\ \E R \in SeqToSet(cache[1].zeroAccessPaths \o cache[1].readOnlyPaths) :
       NameExtension(stdin.file_path, R)

\* every occurrence of X in the text is followed by a name character
OnlyContinued(text, X) ==
  \A i \in OccursAt(text, X) :
    i + Len(X) <= Len(text) /\ text[i + Len(X)] \in WordChars \cup {".", "-"}

\* C9: in the Bash zero-access check, a literal file rule X does not match a
\* command in which every occurrence of X, written or with the home directory
\* expanded, is immediately followed by a letter, digit, ".", "_" or "-"; a
\* command that only names the sibling X.example is not blocked by the
\* zero-access step.
C9_ZeroAccessSkipsSibling ==
  BashChecked =>
    LET u == unwrapCommand(stdin.command, 0).cmd
        rules == SeqToSet(cache[1].zeroAccessPaths)
        sibling(X) == /\ IsFileRule(X)
                      /\ OnlyContinued(u, X)
                      /\ OnlyContinued(u, ExpandHome(X))
    IN  /\ \A X \in rules : sibling(X) => ~ZeroAccessHits(u, PathObject(X))
        /\ (\A X \in rules : sibling(X)) =>
             result[1].patternMatched[1] \notin {"zero_access_literal", "zero_access_glob"}

\* a command on a sibling of the zero-access file rule is allowed
C9_Witness ==
  /\ BashChecked
  /\ Verdict = "allowed"
  /\ \E X \in SeqToSet(cache[1].zeroAccessPaths) :
       /\ IsFileRule(X)
       /\ Direct(stdin.command, Forms, Siblings(X))
       /\ Includes(unwrapCommand(stdin.command, 0).cmd, X)

\* C10: in the Bash read-only and no-delete checks, a literal file rule X does
\* not match an operation on a sibling file whose name is X followed by
\* further name characters, so that operation is not blocked.
C10_OperationSkipsSibling ==
  BashChecked =>
    \A X \in SeqToSet(cache[1].readOnlyPaths \o cache[1].noDeletePaths) :
      (IsFileRule(X) /\ Direct(stdin.command, Forms, Siblings(X))) =>
        result[1].patternMatched[1] \notin {"readonly_path", "nodelete_path"}

\* ---- directory rules of the Write hook ------------------------------------

\* R is a literal rule that ends with a separator
IsDirectoryRule(R) == ~isGlobPattern(R) /\ Len(R) > 1 /\ R[Len(R)] = "/"

\* the path is R followed by the name of something in the directory: one or
\* more segments, none of them "." or ".."
Beneath(path, R) ==
  /\ StartsWith(path, R)
  /\ LET segs == SegmentsFrom(path, Len(R) + 1)
     IN  /\ segs # << >>
         /\ \A k \in 1..Len(segs) : segs[k] \notin {<<".">>, <<".", ".">>}

\* C11: in the Write hook's matchPath, a directory rule R/ matches every path
\* R/<anything> and the path R itself, and does not match a path that only
\* continues R with characters that are no separator.
C11_DirectoryRuleMatches ==
  WriteChecked =>
    \A R \in SeqToSet(cache[1].zeroAccessPaths \o cache[1].readOnlyPaths) :
      IsDirectoryRule(R) =>
        /\ Beneath(stdin.file_path, R) => matchPath(stdin.file_path, R)
        /\ stdin.file_path = StripSlash(R) => matchPath(stdin.file_path, R)
        /\ NameExtension(stdin.file_path, StripSlash(R)) => ~matchPath(stdin.file_path, R)

\* ---- shell wrappers -------------------------------------------------------

\* the command is bash -c "X" for some X
IsInBash(command) ==
  /\ Len(command) > Len(InBash(<< >>))
  /\ InBash(SubSeq(command, Len(InBash(<< >>)), Len(command) - 1)) = command

\* that X
Unbash(command) == SubSeq(command, Len(InBash(<< >>)), Len(command) - 1)

\* C12: wrapping does not change detection: for bash -c "X" checkCommand
\* returns the verdict and the matched rule it returns for X submitted
\* directly, with wasUnwrapped set.
C12_WrappingKeepsDetection ==
  (BashChecked /\ IsInBash(stdin.command)) =>
    LET direct == checkCommand(Unbash(stdin.command), cache[1], context)
    IN  /\ Verdict = Decision(direct)
        /\ result[1].patternMatched = direct.patternMatched
        /\ result[1].reason = direct.reason
        /\ result[1].wasUnwrapped

\* C13: unwrapCommand strips at most 5 wrapper levels: a command nested 1 to 5
\* levels deep is unwrapped to its innermost command, a command nested deeper
\* to the text still wrapped after 5 levels, and wasUnwrapped is true.
C13_UnwrapsFiveLevels ==
  BashChecked =>
    \A ks \in NestKinds, x \in Innermost : \A n \in 1..Len(ks) :
      stdin.command = NestOf(SubSeq(ks, 1, n), x) =>
        LET u == unwrapCommand(stdin.command, 0)
        IN  /\ u.was /\ result[1].wasUnwrapped
            /\ u.cmd = IF n <= MaxUnwrapDepth THEN x
                       ELSE NestOf(SubSeq(ks, MaxUnwrapDepth + 1, n), x)

\* ---- git semantic analysis ------------------------------------------------

\* the arguments of the git command that was submitted
GitArgs == LET parts == SplitWs(stdin.command) IN SubSeq(parts, 3, Len(parts))

\* the hook has checked git <subcommand> ...
GitChecked(subcommand) ==
  /\ BashChecked
  /\ StartsWith(stdin.command, <<"g","i","t"," ">> (* git  *) \o subcommand)
  /\ SplitWs(stdin.command)[2] = subcommand

HasArg(args, a) == \E i \in 1..Len(args) : args[i] = a

\* a single-dash cluster of short flags with ch among them
IsClusterWith(arg, ch) ==
  /\ Len(arg) > 1 /\ arg[1] = "-" /\ arg[2] # "-"
  /\ \E i \in 2..Len(arg) : arg[i] = ch

HasClusterWith(args, ch) == \E i \in 1..Len(args) : IsClusterWith(args[i], ch)

\* C14: git checkout is safe whenever -b or --branch is present; otherwise it
\* is dangerous if -- is followed by a further argument or if --force, -f or
\* a short-flag cluster containing f is present; otherwise it is safe.
C14_CheckoutVerdict ==
  GitChecked(<<"c","h","e","c","k","o","u","t">> (* checkout *)) =>
    LET args == GitArgs
        branch == HasArg(args, <<"-","b">>) \/ HasArg(args, <<"-","-","b","r","a","n","c","h">> (* --branch *))
        restore == \E i \in 1..(Len(args) - 1) : args[i] = <<"-","-">>
        force == HasArg(args, <<"-","-","f","o","r","c","e">> (* --force *)) \/ HasArg(args, <<"-","f">>) \/ HasClusterWith(args, "f")
        dangerous == ~branch /\ (restore \/ force)
    IN  /\ analyzeGitCommand(stdin.command).dangerous <=> dangerous
        /\ result[1].semanticMatch <=> dangerous

C14_Witness ==
  /\ GitChecked(<<"c","h","e","c","k","o","u","t">> (* checkout *))
  /\ GitArgs = <<<<"-","b">>, <<"-","-">>, <<"m","a","i","n">> (* main *)>>
  /\ ~result[1].semanticMatch /\ ~result[1].ask

\* C15: git push is safe whenever --force-with-lease appears, even next to
\* --force or -f; otherwise it is dangerous if --force, -f or a short-flag
\* cluster containing f is present; otherwise it is safe.
C15_PushVerdict ==
  GitChecked(<<"p","u","s","h">> (* push *)) =>
    LET args == GitArgs
        lease == \E i \in 1..Len(args) : Includes(args[i], <<"-","-","f","o","r","c","e","-","w","i","t","h","-","l","e","a","s","e">> (* --force-with-lease *))
        force == HasArg(args, <<"-","-","f","o","r","c","e">> (* --force *)) \/ HasArg(args, <<"-","f">>) \/ HasClusterWith(args, "f")
        dangerous == ~lease /\ force
    IN  /\ analyzeGitCommand(stdin.command).dangerous <=> dangerous
        /\ result[1].semanticMatch <=> dangerous

C15_Witness ==
  /\ GitChecked(<<"p","u","s","h">> (* push *))
  /\ GitArgs = <<<<"-","f">>, <<"-","-","f","o","r","c","e","-","w","i","t","h","-","l","e","a","s","e","=","m","a","i","n">> (* --force-with-lease=main *)>>
  /\ ~result[1].semanticMatch /\ ~result[1].ask

\* C16: git reset is safe if --soft or --mixed is present, dangerous if --hard
\* is present without them, and safe if none of the three is present.
C16_ResetVerdict ==
  GitChecked(<<"r","e","s","e","t">> (* reset *)) =>
    LET args == GitArgs
        keeps == HasArg(args, <<"-","-","s","o","f","t">> (* --soft *)) \/ HasArg(args, <<"-","-","m","i","x","e","d">> (* --mixed *))
        dangerous == HasArg(args, <<"-","-","h","a","r","d">> (* --hard *)) /\ ~keeps
    IN  /\ analyzeGitCommand(stdin.command).dangerous <=> dangerous
        /\ result[1].semanticMatch <=> dangerous

C16_Witness ==
  /\ GitChecked(<<"r","e","s","e","t">> (* reset *))
  /\ GitArgs = <<<<"-","-","h","a","r","d">> (* --hard *), <<"-","-","s","o","f","t">> (* --soft *)>>
  /\ ~result[1].semanticMatch /\ ~result[1].ask

\* C17: git clean is dangerous exactly when -f, -d or a short-flag cluster
\* containing f or d is present.
C17_CleanVerdict ==
  GitChecked(<<"c","l","e","a","n">> (* clean *)) =>
    LET args == GitArgs
        dangerous == \/ HasArg(args, <<"-","f">>) \/ HasArg(args, <<"-","d">>)
                     \/ HasClusterWith(args, "f") \/ HasClusterWith(args, "d")
    IN  /\ analyzeGitCommand(stdin.command).dangerous <=> dangerous
        /\ result[1].semanticMatch <=> dangerous

C17_Witness ==
  /\ GitChecked(<<"c","l","e","a","n">> (* clean *))
  /\ GitArgs = <<<<"-","-","d","r","y","-","r","u","n">> (* --dry-run *), <<"-","n","d">> (* -nd *)>>
  /\ result[1].semanticMatch /\ result[1].ask

\* ---- contexts -------------------------------------------------------------

\* C18: while a context is detected, a check category is skipped exactly when
\* the context lists it as relaxed: a command that matches only a blocking
\* pattern is ALLOWED under a context that relaxes bashToolPatterns and
\* BLOCKED when evaluated without a context; a category that is not relaxed
\* and matches still denies; if all that matches is relaxed the verdict is
\* ALLOW.
C18_RelaxedCategorySkipped ==
  (BashChecked /\ context # NoContext) =>
    LET f == Facts
        steps == OrderedSteps(f)
        matching == {k \in 1..Len(steps) : steps[k][2]}
        listed == cache[1].contexts[context].relaxed_checks
        plain == Decision(checkCommand(stdin.command, cache[1], NoContext))
    IN  /\ ("bashToolPatterns" \in listed /\ matching = {2} /\ steps[2][3] = "blocked") =>
             Verdict = "allowed" /\ plain = "blocked"
        /\ \A k \in matching : steps[k][1] \notin listed => Verdict # "allowed"
        /\ (\A k \in matching : steps[k][1] \in listed) => Verdict = "allowed"

\* a commit whose message matches a blocking pattern, under a context that
\* relaxes the patterns
C18_Witness ==
  /\ BashChecked
  /\ context = "commit_message"
  /\ "bashToolPatterns" \in cache[1].contexts.commit_message.relaxed_checks
  /\ Verdict = "allowed"
  /\ LET f == Facts
     IN  /\ f.patterns # {} /\ ~f.git /\ f.zero = {} /\ f.readOnly = {} /\ f.noDelete = {}
         /\ ~cache[1].bashToolPatterns[SetMin(f.patterns)].ask

\* a zero-access rule denies under a context that relaxes other categories
C18_Enforced ==
  /\ BashChecked
  /\ context = "commit_message"
  /\ "zeroAccessPaths" \notin cache[1].contexts.commit_message.relaxed_checks
  /\ Facts.zero # {}
  /\ Verdict = "blocked"

\* ---- errors ---------------------------------------------------------------

\* main().catch has reported an uncaught error
HookError == \E i \in 1..Len(stderr) : stderr[i] = <<"Hook error">>

\* the explicit error of a payload that is no JSON
InputError == \E i \in 1..Len(stderr) : stderr[i] = <<"Error: Invalid JSON input">>

\* C19: in both hooks an uncaught error, raised while the configuration is
\* loaded or the request is evaluated, ends the invocation with exit code 0
\* and never with exit code 2.
C19_FailOpen ==
  /\ HookError => pc = "done" /\ exitCode = 0
  /\ exitCode = 2 => ~HookError /\ result # << >> /\ result[1].blocked
  /\ (pc = "done" /\ ~disabled /\ configFile = << >>) => HookError /\ exitCode = 0
  /\ (pc = "done" /\ cache # << >> /\ stdin.payload \in {"null", "untyped"}) => exitCode = 0

\* the configuration could not be loaded and the invocation ended with ALLOW
C19_Witness ==
  /\ hook = "bash" /\ configFile = << >> /\ stdin.valid /\ stdin.tool_name = "Bash"
  /\ HookError /\ exitCode = 0

\* the request could not be evaluated and the invocation ended with ALLOW
C19_EvaluationWitness ==
  /\ hook = "write" /\ stdin.payload = "untyped" /\ context = NoContext /\ pc = "done"
  /\ cache # << >> /\ HookError /\ exitCode = 0

\* C20 as stated: a payload that is no JSON ends the invocation with the
\* explicit error and exit code 1, no rule evaluated and no decision record.
C20_MalformedIsFatal ==
  (pc = "done" /\ ~stdin.valid) =>
    /\ exitCode = 1 /\ InputError
    /\ result = << >> /\ audit = << >>

\* C20, amended: once the hook is enabled and has loaded its configuration, a
\* payload that is no JSON ends the invocation with the explicit error and
\* exit code 1, which no other invocation ends with, no rule evaluated and no
\* decision record written; a malformed payload never ends with exit code 2.
C20_MalformedIsFatalOnceLoaded ==
  /\ (pc = "done" /\ ~stdin.valid /\ cache # << >>) =>
       /\ exitCode = 1 /\ InputError /\ ~HookError
       /\ context = NoContext /\ result = << >> /\ audit = << >> /\ stdout = << >>
  /\ exitCode = 1 => ~stdin.valid /\ InputError
  /\ ~stdin.valid => exitCode # 2 /\ result = << >> /\ audit = << >>

C20_Witness ==
  /\ hook = "write" /\ ~stdin.valid /\ cache # << >>
  /\ pc = "done" /\ exitCode = 1 /\ InputError

\* ---- the response ---------------------------------------------------------

\* the lines main wrote to the error channel to report a denial
SecurityLines == SelectSeq(stderr, LAMBDA line : line[1] = "SECURITY")

\* the lines compileRegexPatterns wrote to the error channel
WarningLines ==
  SelectSeq(stderr, LAMBDA line : line[1] = "Warning: Invalid regex pattern at index")

\* the Bash hook has evaluated the request and has exited
BashCompleted == BashChecked /\ pc = "done"

UsablePositions(patterns) == {i \in 1..Len(patterns) : patterns[i].pattern.kind = "valid"}

\* the k-th of the positions in S, in increasing order
NthOf(S, k) == CHOOSE i \in S : Cardinality({j \in S : j <= i}) = k

\* the configuration file without the patterns that do not compile
WithoutInvalid(config) ==
  [config EXCEPT !.bashToolPatterns =
     SelectSeq(@, LAMBDA item : item.pattern.kind # "invalid")]

\* C23: a pattern whose expression does not compile is left out and the rest
\* is compiled: the compiled list holds exactly the usable patterns in
\* configured order, and the verdict and reason are those under the
\* configuration without the invalid patterns.
C23_InvalidPatternsDropped ==
  BashChecked =>
    LET configured == configFile[1].bashToolPatterns
        compiled == cache[1].bashToolPatterns_compiled
        usable == UsablePositions(configured)
        cleaned == checkCommand(stdin.command, compileConfig(WithoutInvalid(configFile[1])),
                                context)
    IN  /\ Len(compiled) = Cardinality(usable)
        /\ \A k \in 1..Len(compiled) : compiled[k] = configured[NthOf(usable, k)]
        /\ Verdict = Decision(cleaned)
        /\ result[1].reason = cleaned.reason

\* a pattern configured after an invalid one blocks
C23_Witness ==
  /\ BashChecked
  /\ Verdict = "blocked"
  /\ result[1].patternMatched[1] = "yaml_pattern"
  /\ configFile[1].bashToolPatterns[1].pattern.kind = "invalid"

\* ---- wrappers, continued --------------------------------------------------

\* unwrapCommand recognises a wrapper in the command as submitted, so that
\* the depth advances at least once
WrapperRecognised(command) ==
  LET c == Trim(command)
  IN  /\ c # << >>
      /\ \/ FirstWrapper(c, shellWrappers).found
         \/ FirstWrapper(c, pythonWrappers).found
         \/ EnvMatch(c).found

\* C24: wasUnwrapped is true whenever a wrapper was recognised and stripped,
\* also when the inner command is empty or blank, and false when no wrapper
\* was recognised.
C24_WasUnwrappedIffStripped ==
  BashChecked => (result[1].wasUnwrapped <=> WrapperRecognised(stdin.command))

\* C25: the identifier reported when a pattern decides is the index of that
\* pattern in the configured list, whether or not patterns configured before
\* it failed to compile or have no expression.
C25_IdentifierIsConfiguredIndex ==
  BashChecked =>
    LET f == Facts
    IN  PatternsDecide(f) =>
          result[1].patternMatched = <<"yaml_pattern", SetMin(f.patterns) - 1>>

\* ---- operation kinds ------------------------------------------------------

KindsOf(templates) == {templates[k][2] : k \in 1..Len(templates)}

ModifyingKinds ==
  {"write", "append", "edit", "move", "copy", "chmod", "chown", "chgrp", "truncate"}

\* the operation kind and tier reported for the denial, if a path tier denied
DeniedBy(tier) == Verdict = "blocked" /\ result[1].reason.pathType = tier

\* C26 as stated: the operation kinds matched for a read-only rule are all
\* kinds except delete, and the kinds matched for a no-delete rule are delete
\* only.
C26_ReadOnlyExceptDelete ==
  BashChecked =>
    /\ KindsOf(READ_ONLY_BLOCKED) = ModifyingKinds
    /\ KindsOf(NO_DELETE_BLOCKED) = {"delete"}
    /\ DeniedBy("read-only path") => result[1].reason.text \in ModifyingKinds
    /\ DeniedBy("no-delete path") => result[1].reason.text = "delete"

\* C26, amended: the operation kinds matched for a read-only rule are all
\* kinds, delete included, and the kinds matched for a no-delete rule are
\* delete only; the kind reported for a denial is the kind of a template of
\* the tier that matches the unwrapped command on the reported rule.
C26_ReadOnlyIncludesDelete ==
  /\ KindsOf(READ_ONLY_BLOCKED) = ModifyingKinds \cup {"delete"}
  /\ KindsOf(NO_DELETE_BLOCKED) = {"delete"}
  /\ BashChecked =>
       LET u == unwrapCommand(stdin.command, 0).cmd
           why == result[1].reason
           hit(templates) ==
             \E k \in 1..Len(templates) :
               /\ templates[k][2] = why.text
               /\ TemplateHits(u, PathObject(why.path), templates[k])
       IN  /\ DeniedBy("read-only path") =>
                why.text \in ModifyingKinds \cup {"delete"} /\ hit(READ_ONLY_BLOCKED)
           /\ DeniedBy("no-delete path") => why.text = "delete" /\ hit(NO_DELETE_BLOCKED)

\* a removal denied by a read-only rule
C26_Witness ==
  /\ BashChecked
  /\ DeniedBy("read-only path")
  /\ result[1].reason.text = "delete"

\* ---- git semantic analysis, continued -------------------------------------

\* C27: the git analysis has no opinion (not dangerous, empty reason) on an
\* unwrapped command that does not start with "git " after trimming, and on
\* every git subcommand other than checkout, push, reset and clean, whatever
\* its arguments.
C27_GitNoOpinion ==
  BashChecked =>
    LET u == unwrapCommand(stdin.command, 0).cmd
        c == Trim(u)
        git == StartsWith(c, <<"g","i","t"," ">> (* git  *))
        analysed == git /\ SplitWs(c)[2] \in {<<"c","h","e","c","k","o","u","t">> (* checkout *), <<"p","u","s","h">> (* push *), <<"r","e","s","e","t">> (* reset *), <<"c","l","e","a","n">> (* clean *)}
    IN  ~analysed =>
          /\ analyzeGitCommand(u) = [dangerous |-> FALSE, reason |-> ""]
          /\ ~result[1].semanticMatch
          /\ result[1].patternMatched # <<"semantic_git", 0>>

\* a forced branch command is passed by the git analysis
C27_Witness ==
  /\ BashChecked
  /\ stdin.command = <<"g","i","t"," ","b","r","a","n","c","h"," ","-","f"," ","-","-","h","a","r","d">> (* git branch -f --hard *)
  /\ ~result[1].semanticMatch /\ Verdict = "allowed"

\* a force push behind sudo is passed by the git analysis
C27_PrefixWitness ==
  /\ BashChecked
  /\ stdin.command = <<"s","u","d","o"," ","g","i","t"," ","p","u","s","h"," ","-","-","f","o","r","c","e">> (* sudo git push --force *)
  /\ ~result[1].semanticMatch

\* ---- what unwrapping leaves to the checks ---------------------------------

\* the command ends in the harmless wrapper invocation ; bash -c "ls"
IsThenBash(command) ==
  /\ Len(command) > Len(ThenBash(<< >>))
  /\ ThenBash(SubSeq(command, 1, Len(command) - Len(ThenBash(<< >>)))) = command

\* the command in front of it
BeforeBash(command) == SubSeq(command, 1, Len(command) - Len(ThenBash(<< >>)))

\* C28: unwrapping hides nothing from the checks: if C alone is denied or
\* asked about, then C ; W with a harmless wrapper invocation W after it is
\* not ALLOWED.
C28_WrapperAfterHidesNothing ==
  (BashChecked /\ IsThenBash(stdin.command)) =>
    LET alone == checkCommand(BeforeBash(stdin.command), cache[1], context)
    IN  Decision(alone) # "allowed" => Verdict # "allowed"

\* ---- the env wrapper -------------------------------------------------------

\* the command is an invocation of env: its first word is env
LeadingEnv(command) == StartsWith(Trim(command), <<"e","n","v"," ">> (* env  *))

\* C29: the env-wrapper rule strips only a leading env invocation: a command
\* that names a path holding the letters env and is no invocation of env (nor
\* holds a shell or interpreter wrapper) is checked as submitted, so that
\* cat .env notes.txt under the zero-access rule .env is BLOCKED.
C29_EnvOnlyWhenLeading ==
  BashChecked =>
    LET c == Trim(stdin.command)
        other == \/ FirstWrapper(c, shellWrappers).found
                 \/ FirstWrapper(c, pythonWrappers).found
    IN  (c # << >> /\ ~other /\ ~LeadingEnv(c)) =>
          /\ unwrapCommand(stdin.command, 0).cmd = stdin.command
          /\ ~result[1].wasUnwrapped
          /\ (stdin.command = <<"c","a","t"," ",".","e","n","v"," ","n","o","t","e","s",".","t","x","t">> (* cat .env notes.txt *) /\ cache[1].zeroAccessPaths # << >>)
               => Verdict = "blocked"

\* ---- the command the context is detected on --------------------------------

\* C30: context detection and the checks look at the same command: whenever
\* the commit_message context is detected and changes the verdict the checks
\* would give without a context, the unwrapped command that the checks see
\* matches a commit-message detection pattern itself.
C30_ContextOfCheckedCommand ==
  (BashChecked /\ context = "commit_message") =>
    LET plain == Decision(checkCommand(stdin.command, cache[1], NoContext))
        seen == [stdin EXCEPT !.command = unwrapCommand(stdin.command, 0).cmd]
    IN  Verdict # plain => detectContext("Bash", seen, cache[1]) = "commit_message"
====
